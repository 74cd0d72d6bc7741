---------------------------- MODULE KernelBodies ----------------------------
(***************************************************************************)
(* The operations of the geometry kernel on single bodies: import, cuts,   *)
(* transforms, booleans, local modelling, healing and the queries          *)
(* (geometry_service_core, _transforms, _booleans, _modelling, _validation *)
(* and _measurement).  Each is one action: the kernel holds its mutex for  *)
(* the whole call, whatever else the process does.                         *)
(*                                                                         *)
(* Which faces and edges an operation finds, and whether OCCT builds a     *)
(* valid result from them, are choices; the order in which the code looks, *)
(* snapshots, fails, registers and answers is not.                         *)
(***************************************************************************)
EXTENDS KernelState

Solids == DOMAIN live.solids
Shells == DOMAIN live.shells
Parts  == Bodies(live)

Erased(g, id) ==
    IF id \in DOMAIN g.shells THEN [g EXCEPT !.shells = Drop(@, {id})]
                              ELSE [g EXCEPT !.solids = Drop(@, {id})]

\* The result is registered as what the operand was, without a parent.
Result(g, id, shape) ==
    IF id \in Shells THEN WithShell(g, Id(1), None, shape)
                     ELSE WithSolid(g, Id(1), shape)

\* A query locks, looks and answers; it may fail but changes nothing.
Query(ids, registry) == Refused \/ (ids \subseteq registry /\ Answered)

\* Mutant: the history's failure is reported without "rollback".
ReplacedThenTracedUnhinted(id, shape) ==
    Done(Reshaped(live, id, shape), 0) \/ Failed(Reshaped(live, id, shape), 0, FALSE)

\* The shape is replaced first and its history captured after: a failure of
\* the second leaves the first done.
ReplacedThenTraced(id, shape) ==
    Done(Reshaped(live, id, shape), 0) \/ Failed(Reshaped(live, id, shape), 0, TRUE)
-----------------------------------------------------------------------------
\* geometry_service_core.cc

loadStep(shape) ==
    \/ Refused
    \/ Unguarded(WithSolid(live, Id(0), shape), 1, TRUE)

\* Replaces the shape without a snapshot and hands back the token its
\* caller passed in.
centerAndAlignBody(id, shape, transactionId) ==
    \/ Refused
    \/ /\ id \in Parts
       /\ live' = Reshaped(live, id, shape)
       /\ last' = Answer(TRUE, FALSE, transactionId)
       /\ UNCHANGED <<docs, snapshots, nextId>>

getTopology(id) == Query({id}, Parts)

separateSolids(id, n, shape) ==
    IF id \notin Solids THEN Refused
    ELSE n > 0 /\ Unguarded(WithShells(live, 0, n, id, shape), n, TRUE)

booleanCut(id, n, shape) ==
    IF id \notin Solids THEN Refused ELSE
    \/ Failed(live, 0, FALSE)                                 \* zero normal
    \/ NotDone
    \/ n > 0 /\ Done(WithShells(live, 1, n, id, shape), n)
    \/ n > 0 /\ Failed(WithShells(live, 1, n, id, shape), n, TRUE)

\* Both issue a token for a change they do not make.
addTabSlot(a, b) ==
    IF {a, b} \subseteq Shells THEN Done(live, 0) ELSE Refused

addRivetHole(id) ==
    IF id \in Shells THEN Done(live, 1) ELSE Refused
-----------------------------------------------------------------------------
\* geometry_service_transforms.cc

\* applyTransformLocked: the copy is made and traced before the original goes.
Transform(id, shape, keepOriginal) ==
    IF id \notin Parts THEN Refused ELSE
    \/ NotDone
    \/ Done(Result(IF keepOriginal THEN live ELSE Erased(live, id), id, shape), 1)

translateBody(id, shape, keepOriginal) == Transform(id, shape, keepOriginal)

\* A null axis or normal throws out of gp_Dir before anything is looked up.
rotateBody(id, shape, keepOriginal) == Refused \/ Transform(id, shape, keepOriginal)

mirrorBody(id, shape, keepOriginal) == Refused \/ Transform(id, shape, keepOriginal)

scaleBody(id, shape, keepOriginal, positive) ==
    IF positive THEN Transform(id, shape, keepOriginal) ELSE Refused

\* id is the body the source face was found on.  The handler's own catch
\* says "rollback" although no snapshot was taken.
alignToFace(id, shape, keepOriginal) ==
    \/ Refused
    \/ last' = Answer(FALSE, TRUE, None) /\ UNCHANGED <<live, docs, snapshots, nextId>>
    \/ Transform(id, shape, keepOriginal)
-----------------------------------------------------------------------------
\* geometry_service_booleans.cc

cutBodies(blank, tools, keepTools, shape) ==
    IF ~ ({blank} \cup tools \subseteq Shells) THEN Refused ELSE
    \/ NotDone
    \/ LET gone == {blank} \cup (IF keepTools THEN {} ELSE tools)
           g    == [live EXCEPT !.shells = Drop(@, gone)]
       IN  Done(WithShell(g, Id(1), None, shape), 1)

intersectBodies(a, b, shape) ==
    IF ~ ({a, b} \subseteq Shells) THEN Refused ELSE
    \/ NotDone
    \/ LET g == [live EXCEPT !.shells = Drop(@, {a, b})]
       IN  Done(WithShell(g, Id(1), None, shape), 1)
-----------------------------------------------------------------------------
\* geometry_service_modelling.cc

\* No edge of that id, a radius too large, an invalid result: all after the
\* snapshot, all with "rollback".
InPlace(id, shape) ==
    IF id \notin Parts THEN Refused ELSE NotDone \/ ReplacedThenTraced(id, shape)

filletEdges(id, shape) == InPlace(id, shape)

chamferEdges(id, shape) == InPlace(id, shape)

simplifyBody(id, shape) == InPlace(id, shape)

\* Keeps a result that is still not valid, and answers that it is not.
healGeometryEx(id, shape) == InPlace(id, shape)

offsetShape(id, shape) == InPlace(id, shape)

\* The faces that are left make one shell, several, or (healed away) none.
deleteFace(id, n, shape) ==
    IF id \notin Parts THEN Refused ELSE
    \/ NotDone
    \/ Done(WithShells(Erased(live, id), 1, n, None, shape), n)

\* entities are the bodies among the ids given, which may also name faces.
\* They are looked up after the snapshot; they are gone and the result is
\* registered when the history is captured, which may fail.
sewFaces(entities, shape, makesSolid) ==
    \/ Failed(live, 0, FALSE)
    \/ NotDone
    \/ /\ entities \subseteq Parts
       /\ LET rest == Without(live, entities)
              sewn == IF makesSolid THEN WithSolid(rest, Id(1), shape)
                                    ELSE WithShell(rest, Id(1), None, shape)
          IN  Done(sewn, 1) \/ Failed(sewn, 1, TRUE)

closeGap(a, b, shape) ==
    IF ~ ({a, b} \subseteq Shells) THEN Refused ELSE
    \/ Refused
    \/ Done(live, 0)
    \/ a # b /\ Done(Reshaped(live, b, shape), 0)

\* The target part is looked up after the snapshot; a face already at the
\* target leaves the part alone.
extendFaceToTarget(id, targetType, target, shape) ==
    IF id \notin Shells THEN Refused ELSE
    \/ Failed(live, 0, FALSE)
    \/ /\ targetType = "plane" \/ target \in Shells
       /\ NotDone \/ Done(live, 0) \/ ReplacedThenTraced(id, shape)

offsetFace(id, distanceIsZero, shape) ==
    IF id \notin Shells \/ distanceIsZero THEN Refused ELSE
    \/ Failed(live, 0, FALSE)
    \/ NotDone
    \/ Done(Reshaped(live, id, shape), 0)

\* The flange gets an id of its own that names nothing.
addFlange(id, inRange, shape) ==
    IF id \notin Shells \/ ~ inRange THEN Refused ELSE
    \/ Failed(live, 0, FALSE)
    \/ NotDone
    \/ Done(Reshaped(live, id, shape), 1)

ripEdge(id, shape) ==
    IF id \notin Shells THEN Refused ELSE
    \/ Failed(live, 0, FALSE)
    \/ NotDone
    \/ Done(Reshaped(live, id, shape), 0)
-----------------------------------------------------------------------------
\* geometry_service_validation.cc

checkManifold(id) == Query({id}, Solids)

healGeometry(id, shape) ==
    IF id \notin Solids THEN Refused ELSE
    \/ Refused
    \/ Unguarded(WithSolid(live, Id(0), shape), 1, TRUE)

validateSheetMetal(id) == Query({id}, Parts)

measurePanelThickness(id) == Query({id}, Parts)

\* Validated first; no pair of sharp edges one thickness apart leaves the
\* part alone; the history is captured before the shape is replaced.
reconstructCurvedBends(id, shape) ==
    IF id \notin Parts THEN Refused ELSE
    \/ Refused
    \/ NotDone
    \/ Done(live, 0)
    \/ Done(Reshaped(live, id, shape), 0)
-----------------------------------------------------------------------------
\* geometry_service_measurement.cc and the exports: entity ids also name
\* faces, edges and vertices of the bodies.

computeBoundingBox(id)      == Query({id}, Parts)
computeMassProperties(id)   == Query({id}, Parts)
measureDistance(a, b)       == Query({a, b}, Parts)
exploreTopology(id)         == Query({id}, Parts)
computeIntersections(a, b)  == Query({a, b}, Shells)
checkAssemblyClashes(a, b)  == Query({a, b}, Parts)
computeGaps(a, b)           == Query({a, b}, Shells)
exportGlb(id)               == Query({id}, Parts)
exportDxf(id)               == Query({id}, DOMAIN live.unfolds)
=============================================================================
