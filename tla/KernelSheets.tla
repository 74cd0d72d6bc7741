---------------------------- MODULE KernelSheets ----------------------------
(***************************************************************************)
(* The sheet-metal operations of the geometry kernel as changes of its     *)
(* registries (geometry_service_shell, _export and _sheet_metal): what     *)
(* each registers, in which order, and what it leaves when it fails.  The  *)
(* shapes they compute are free.                                           *)
(***************************************************************************)
EXTENDS KernelBodies

-----------------------------------------------------------------------------
\* geometry_service_shell.cc

thickenSheet(id, positive, shape) ==
    IF id \notin Shells \/ ~ positive THEN Refused ELSE
    \/ Refused
    \/ Unguarded(WithShell(live, Id(0), live.shells[id].parent, shape), 1, TRUE)

buildSheetFromDxf(shape) ==
    \/ Refused
    \/ Unguarded(WithShell(live, Id(0), None, shape), 1, TRUE)

\* Without bend zones a sheet and its solid; with one zone a sheet and a
\* solid for either side of the hinge and then the refolded part.  The
\* pieces stay registered, also when a later step fails: the call then
\* answers ok = false, takes no snapshot and gives no hint.
buildShellFromFlatPattern(n, shape) ==
    \/ Refused
    \/ n > 0 /\ Unguarded(WithShells(live, 0, n, None, shape), n, TRUE)
    \/ n > 0 /\ Unguarded(WithShells(live, 0, n, None, shape), n, FALSE)

getPanelFrame(id) == Query({id}, Shells)

\* Registers a copy and returns its id; the snapshot's token is dropped.
addCornerRelief(id, shape) ==
    IF id \notin Shells THEN Refused ELSE
    \/ NotDone
    \/ DoneNoToken(WithShell(live, Id(1), live.shells[id].parent, shape), 1)

nestShells(unfoldIds) ==
    \/ Refused
    \/ unfoldIds \subseteq DOMAIN live.unfolds /\ Issue(1)
       /\ last' = Answer(TRUE, FALSE, None) /\ UNCHANGED <<live, docs, snapshots>>

\* The panels are checked for a gap before the snapshot, for thickness and
\* radius after it; they stay next to the merged part.
mergeBodiesWithBend(a, b, radiusIsPositive, shape) ==
    IF ~ ({a, b} \subseteq Shells) \/ ~ radiusIsPositive THEN Refused ELSE
    \/ Refused
    \/ Failed(live, 0, FALSE)
    \/ NotDone
    \/ LET g == WithShell(live, Id(1), live.shells[a].parent, shape)
       IN  Done(g, 1) \/ Failed(g, 1, TRUE)

\* The same call with the token left out of the answer.
applyBend(a, b, radiusIsPositive, shape) ==
    IF ~ ({a, b} \subseteq Shells) \/ ~ radiusIsPositive THEN Refused ELSE
    \/ Refused
    \/ Failed(live, 0, FALSE)
    \/ NotDone
    \/ LET g == WithShell(live, Id(1), live.shells[a].parent, shape)
       IN  DoneNoToken(g, 1) \/ Failed(g, 1, TRUE)
-----------------------------------------------------------------------------
\* geometry_service_export.cc

UnfoldState(source, improved) == [source |-> source, improved |-> improved]

WithUnfold(g, id, source, improved) ==
    [g EXCEPT !.unfolds = Put(@, id, UnfoldState(source, improved))]

\* buildImprovedFoldedLocked: the preview with curved bends is registered
\* under the source's id and a suffix, over whatever has that id.
WithImproved(g, source, shape) ==
    WithShell(g, Improved(source), None, shape)

\* Invalid sheet metal is refused before the snapshot.  A body without
\* planar faces or panels unfolds to its box and gets no preview.
unfoldShell(id, shape) ==
    IF id \notin Shells THEN Refused ELSE
    \/ Refused
    \/ NotDone
    \/ Done(WithUnfold(live, Id(1), id, None), 1)
    \/ /\ id[2] < MaxSuffix
       /\ Done(WithUnfold(WithImproved(live, id, shape), Id(1), id, Improved(id)), 1)
-----------------------------------------------------------------------------
\* geometry_service_sheet_metal.cc

splitBodyByPlane(id, shape) ==
    IF id \notin Shells THEN Refused ELSE
    \/ Failed(live, 0, FALSE)                                 \* zero normal
    \/ NotDone
    \/ LET g == WithShells(live, 1, 2, live.shells[id].parent, shape)
       IN  Done(g, 2) \/ Failed(g, 2, TRUE)

\* Panels and protrusions are registered as they are found.  The BFS mode
\* fails with "rollback", anything else without, and both keep the pieces.
splitBodyByBends(id, angleIsNegative, n, shape) ==
    IF id \notin Parts \/ angleIsNegative THEN Refused ELSE
    LET g == WithShells(live, 1, n, ParentFor(live, id), shape)
    IN  Done(g, n) \/ Failed(g, n, TRUE) \/ Failed(g, n, FALSE)

\* The host is replaced when every protrusion has been registered.
removeProtrusions(id, n, shape) ==
    IF id \notin Parts THEN Refused ELSE
    LET g == WithShells(live, 1, n, ParentFor(live, id), shape)
    IN  \/ Refused                                            \* null shape
        \/ Failed(g, n, FALSE)
        \/ Done(Reshaped(g, id, shape), n)

\* Only a host that is a shell is replaced: a solid keeps its protrusions,
\* which are registered all the same.
removeProtrusionsLegacy(id, n, shape) ==
    IF id \notin Parts THEN Refused ELSE
    LET g == WithShells(live, 1, n, ParentFor(live, id), shape)
    IN  \/ Failed(g, n, FALSE)
        \/ Done(IF id \in Shells THEN Reshaped(g, id, shape) ELSE g, n)

trimBodyWithPlane(id, shape) ==
    IF id \notin Parts THEN Refused ELSE
    \/ Failed(live, 0, FALSE)                                 \* zero normal
    \/ NotDone
    \/ ReplacedThenTraced(id, shape)
=============================================================================
