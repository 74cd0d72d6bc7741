-------------------------- MODULE GeometryBinding --------------------------
(***************************************************************************)
(* The JavaScript side of the kernel (src/cpp/src/napi/geometry_binding):  *)
(* one function per operation.  It reads its arguments, calls the one      *)
(* service of the process and either throws or hands an object of ids and  *)
(* numbers to its caller.  A caller can only name what it was handed: "told" *)
(* is all the ids it ever was.                                             *)
(***************************************************************************)
EXTENDS GeometryKernel

VARIABLE told

callVars == <<live, docs, snapshots, nextId, last, told>>

\* What a caller can pass: an id it was told of, or None for any other text.
Names == {None} \cup (told \cap (Parts \cup Assemblies \cup DOMAIN live.unfolds))

Tokens == {None} \cup (told \cap DOMAIN snapshots)

-----------------------------------------------------------------------------
\* TRY_GEOMETRY: a call that throws hands over its error and no id.
ReturnsOnly(S) == told' = IF last'.ok THEN told \cup (S \ {None}) ELSE told

\* The object also has a rollback token, the one of the kernel's answer.
Returns(S) == ReturnsOnly(S \cup {last'.token})

Many(first, n) == {Id(first + i) : i \in 0 .. n - 1}

\* The result objects that several functions build.
TransformResult     == Returns({Id(1)})
StandardResult(id)  == Returns({id})
HealExResult(id)    == Returns({id})
DeleteFaceResult(n) == Returns(Many(1, n))
SewResult           == Returns({Id(1)})
MateRigidResult     == Returns({})
AssemblyTree(a)     == ReturnsOnly(IF a \in Assemblies THEN DOMAIN live.assemblies[a] ELSE {})

\* Too few arguments, or of another type: TypeError before the service.
TypeError == Refused /\ UNCHANGED told
-----------------------------------------------------------------------------
LoadStep(shape)        == loadStep(shape) /\ ReturnsOnly({Id(0)})
GetTopology(id)        == getTopology(id) /\ ReturnsOnly({})
CheckManifold(id)      == checkManifold(id) /\ ReturnsOnly({})
HealGeometry(id, shape) == healGeometry(id, shape) /\ ReturnsOnly({Id(0)})
BooleanCut(id, n, shape) == booleanCut(id, n, shape) /\ Returns(Many(1, n))
SeparateSolids(id, n, shape) == separateSolids(id, n, shape) /\ ReturnsOnly(Many(0, n))
AddTabSlot(a, b)       == addTabSlot(a, b) /\ Returns({a, b})
AddRivetHole(id)       == addRivetHole(id) /\ Returns({id, Id(1)})
UnfoldShell(id, shape) ==
    /\ unfoldShell(id, shape)
    /\ Returns({Id(1), IF last'.ok THEN live'.unfolds[Id(1)].improved ELSE None})
ExportDxf(id)          == exportDxf(id) /\ ReturnsOnly({})
BuildSheetFromDxf(shape) == buildSheetFromDxf(shape) /\ ReturnsOnly({Id(0)})
ThickenSheet(id, positive, shape) ==
    thickenSheet(id, positive, shape) /\ ReturnsOnly({Id(0)})
ApplyBend(a, b, positive, shape) ==
    applyBend(a, b, positive, shape) /\ ReturnsOnly({Id(1)})
\* The last piece is the refolded part; the sheets and sides it was made
\* from are not in the answer.
BuildShellFromFlatPattern(n, shape) ==
    buildShellFromFlatPattern(n, shape) /\ ReturnsOnly({Id(n - 1)})
GetPanelFrame(id)      == getPanelFrame(id) /\ ReturnsOnly({})
ExportGlb(id)          == exportGlb(id) /\ ReturnsOnly({})
NestShells(ids)        == nestShells(ids) /\ ReturnsOnly({Id(0)})
SplitBodyByPlane(id, shape) == splitBodyByPlane(id, shape) /\ Returns(Many(1, 2))
MergeBodiesWithBend(a, b, positive, shape) ==
    mergeBodiesWithBend(a, b, positive, shape) /\ Returns({Id(1)})
CloseGap(a, b, shape)  == closeGap(a, b, shape) /\ Returns({b})
ExtendFaceToTarget(id, type, target, shape) ==
    extendFaceToTarget(id, type, target, shape) /\ Returns({id})
OffsetFace(id, zero, shape) == offsetFace(id, zero, shape) /\ Returns({id})
AddFlange(id, inRange, shape) == addFlange(id, inRange, shape) /\ Returns({id, Id(1)})
RipEdge(id, shape)     == ripEdge(id, shape) /\ Returns({id})
ComputeIntersections(a, b) == computeIntersections(a, b) /\ ReturnsOnly({})
CheckAssemblyClashes(a, b) == checkAssemblyClashes(a, b) /\ ReturnsOnly({})
ComputeGaps(a, b)      == computeGaps(a, b) /\ ReturnsOnly({})
TrimBodyWithPlane(id, shape) == trimBodyWithPlane(id, shape) /\ Returns({id})
SplitBodyByBends(id, negative, n, shape) ==
    splitBodyByBends(id, negative, n, shape) /\ Returns(Many(1, n))
RemoveProtrusions(id, n, shape) ==
    /\ removeProtrusions(id, n, shape) \/ removeProtrusionsLegacy(id, n, shape)
    /\ Returns({id} \cup Many(1, n))
\* The token of the answer is the caller's own second argument.
CenterAndAlignBody(id, shape, transactionId) ==
    centerAndAlignBody(id, shape, transactionId) /\ Returns({id})
ComputeBoundingBox(id)    == computeBoundingBox(id) /\ ReturnsOnly({})
ComputeMassProperties(id) == computeMassProperties(id) /\ ReturnsOnly({})
MeasureDistance(a, b)     == measureDistance(a, b) /\ ReturnsOnly({})
ExploreTopology(id)       == exploreTopology(id) /\ ReturnsOnly({})
CutBodies(blank, tools, keep, shape) ==
    cutBodies(blank, tools, keep, shape) /\ Returns({Id(1)})
IntersectBodies(a, b, shape) == intersectBodies(a, b, shape) /\ Returns({Id(1)})
FilletEdges(id, shape)    == filletEdges(id, shape) /\ StandardResult(id)
ChamferEdges(id, shape)   == chamferEdges(id, shape) /\ StandardResult(id)
SimplifyBody(id, shape)   == simplifyBody(id, shape) /\ StandardResult(id)
HealGeometryEx(id, shape) == healGeometryEx(id, shape) /\ HealExResult(id)
OffsetShape(id, shape)    == offsetShape(id, shape) /\ StandardResult(id)
DeleteFace(id, n, shape)  == deleteFace(id, n, shape) /\ DeleteFaceResult(n)
\* Mutant: the result object has no rollback token.
TranslateBodyNoToken(id, shape, keep) ==
    translateBody(id, shape, keep) /\ ReturnsOnly({Id(1)})

TranslateBody(id, shape, keep) == translateBody(id, shape, keep) /\ TransformResult
RotateBody(id, shape, keep) == rotateBody(id, shape, keep) /\ TransformResult
MirrorBody(id, shape, keep) == mirrorBody(id, shape, keep) /\ TransformResult
ScaleBody(id, shape, keep, positive) ==
    scaleBody(id, shape, keep, positive) /\ TransformResult
AlignToFace(id, shape, keep) == alignToFace(id, shape, keep) /\ TransformResult
SewFaces(entities, shape, solid) == sewFaces(entities, shape, solid) /\ SewResult
CreateAssemblyDocument    == createAssemblyDocument /\ ReturnsOnly({Id(1)})
AddAssemblyInstance(a, b, p) == addAssemblyInstance(a, b, p) /\ Returns({Id(1)})
MateRig(a, body, p, q)    == mateRigid(a, body, p, q) /\ MateRigidResult
ListAssemblyTree(a)       == listAssemblyTree(a) /\ AssemblyTree(a)
ValidateSheetMetal(id)    == validateSheetMetal(id) /\ ReturnsOnly({})
MeasurePanelThickness(id) == measurePanelThickness(id) /\ ReturnsOnly({})
ReconstructCurvedBends(id, shape) == reconstructCurvedBends(id, shape) /\ Returns({id})
-----------------------------------------------------------------------------
\* createSnapshot, restoreSnapshot, clearSnapshots, clearState.  A restore
\* answers with the solids and shells the snapshot was taken of.
CreateSnapshotCall == CreateSnapshot /\ Returns({})

\* Mutant: the shells are left out of the answer.
RestoreSnapshotCallSolids(t) ==
    /\ RestoreSnapshot(t)
    /\ ReturnsOnly(IF last'.ok THEN DOMAIN snapshots[t].solids ELSE {})

RestoreSnapshotCall(t) ==
    /\ RestoreSnapshot(t)
    /\ ReturnsOnly(IF last'.ok THEN Bodies(snapshots[t]) ELSE {})

ClearSnapshotsCall == ClearSnapshots /\ UNCHANGED told

ClearStateCall == ClearState /\ UNCHANGED told
-----------------------------------------------------------------------------
CallInit == Init /\ told = {}

CutCalls ==
    \E id \in Names, shape \in Shape :
        \/ \E n \in 0 .. MaxPieces :
               \/ BooleanCut(id, n, shape)
               \/ SeparateSolids(id, n, shape)
               \/ DeleteFace(id, n, shape)
               \/ RemoveProtrusions(id, n, shape)
               \/ \E negative \in BOOLEAN : SplitBodyByBends(id, negative, n, shape)
        \/ SplitBodyByPlane(id, shape)
        \/ TrimBodyWithPlane(id, shape)
        \/ \E keep \in BOOLEAN, tools \in SUBSET Names : CutBodies(id, tools, keep, shape)

TransformCalls ==
    \E id \in Names, shape \in Shape, keep \in BOOLEAN :
        \/ TranslateBody(id, shape, keep)
        \/ RotateBody(id, shape, keep)
        \/ MirrorBody(id, shape, keep)
        \/ \E positive \in BOOLEAN : ScaleBody(id, shape, keep, positive)
        \/ AlignToFace(id, shape, keep)

EditCalls ==
    \E id \in Names, shape \in Shape :
        \/ FilletEdges(id, shape)
        \/ ChamferEdges(id, shape)
        \/ SimplifyBody(id, shape)
        \/ HealGeometry(id, shape)
        \/ HealGeometryEx(id, shape)
        \/ OffsetShape(id, shape)
        \/ \E zero \in BOOLEAN : OffsetFace(id, zero, shape)
        \/ \E inRange \in BOOLEAN : AddFlange(id, inRange, shape)
        \/ RipEdge(id, shape)
        \/ ReconstructCurvedBends(id, shape)
        \/ AddRivetHole(id)
        \/ \E t \in Tokens : CenterAndAlignBody(id, shape, t)

PairCalls ==
    \E a, b \in Names, shape \in Shape :
        \/ IntersectBodies(a, b, shape)
        \/ CloseGap(a, b, shape)
        \/ \E t \in {"plane", "face_id"} : ExtendFaceToTarget(a, t, b, shape)
        \/ AddTabSlot(a, b)
        \/ \E positive \in BOOLEAN :
               MergeBodiesWithBend(a, b, positive, shape) \/ ApplyBend(a, b, positive, shape)

SheetCalls ==
    \/ \E shape \in Shape : LoadStep(shape) \/ BuildSheetFromDxf(shape)
    \/ \E shape \in Shape, n \in 0 .. MaxPieces : BuildShellFromFlatPattern(n, shape)
    \/ \E shape \in Shape, entities \in SUBSET Names, solid \in BOOLEAN :
           SewFaces(entities, shape, solid)
    \/ \E id \in Names, shape \in Shape :
           UnfoldShell(id, shape) \/ \E positive \in BOOLEAN : ThickenSheet(id, positive, shape)
    \/ \E ids \in SUBSET Names : NestShells(ids)

QueryCalls ==
    \/ TypeError
    \/ \E id \in Names :
           \/ GetTopology(id) \/ CheckManifold(id) \/ ValidateSheetMetal(id)
           \/ MeasurePanelThickness(id) \/ GetPanelFrame(id) \/ ExportGlb(id)
           \/ ComputeBoundingBox(id) \/ ComputeMassProperties(id)
           \/ ExploreTopology(id) \/ ExportDxf(id)
    \/ \E a, b \in Names :
           \/ MeasureDistance(a, b) \/ ComputeIntersections(a, b)
           \/ CheckAssemblyClashes(a, b) \/ ComputeGaps(a, b)

InstanceCalls ==
    \/ CreateAssemblyDocument
    \/ \E a, b \in Names, p \in 0 .. MaxTurn : AddAssemblyInstance(a, b, p)
    \/ \E a, b \in Names, p, q \in 0 .. MaxTurn : MateRig(a, b, p, q)
    \/ \E a \in Names : ListAssemblyTree(a)

SnapshotCalls ==
    \/ CreateSnapshotCall
    \/ \E t \in Tokens : RestoreSnapshotCall(t)
    \/ ClearSnapshotsCall
    \/ ClearStateCall

CallNext ==
    \/ CutCalls \/ TransformCalls \/ EditCalls \/ PairCalls
    \/ SheetCalls \/ QueryCalls \/ InstanceCalls \/ SnapshotCalls

CallSpec == CallInit /\ [][CallNext]_callVars
-----------------------------------------------------------------------------
\* Properties

\* A token its caller holds brings back the state t stands for.
Undoes(t, g) == t \in DOMAIN snapshots' /\ snapshots'[t] = g

\* A call that succeeded and changed or dropped a body has handed its caller
\* a token that brings the state before it back, and so has every call
\* before it: the rollbackToken of each result object.  The restores and
\* clears themselves, and centerAndAlignBody, which takes no snapshot, are
\* left out.
SuccessCanBeUndone ==
    [][\/ ~ last'.ok \/ Kept(live, live')
       \/ \E t \in told' : Undoes(t, live)
       \/ SnapshotCalls
       \/ \E id \in Names, shape \in Shape, t \in Tokens :
              CenterAndAlignBody(id, shape, t)]_callVars

\* A body that a successful call registered, or a restore brought back, has
\* an id its caller was handed: nothing is left in the registry that no
\* later call can name, but for the sheets that buildShellFromFlatPattern
\* makes on its way and what a failed call left.
NewBodiesAreNamed ==
    [][\/ ~ last'.ok
       \/ (Bodies(live') \ Bodies(live)) \subseteq told'
       \/ \E n \in 0 .. MaxPieces, shape \in Shape :
              BuildShellFromFlatPattern(n, shape)]_callVars
=============================================================================
