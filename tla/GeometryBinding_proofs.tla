----------------------- MODULE GeometryBinding_proofs -----------------------
(***************************************************************************)
(* Proofs about the JavaScript side of the kernel.  Every call is a step   *)
(* of the kernel, so the calls have its properties; and what a call hands  *)
(* to its caller is enough to name every body it made and to undo it.      *)
(***************************************************************************)
EXTENDS GeometryBinding, GeometryKernel_proofs

-----------------------------------------------------------------------------
(* Every call is a step of the kernel.                                     *)

(* A caller can pass no more than the kernel's ids and tokens. *)
LEMMA Passed == Names \subseteq Ids /\ Tokens \subseteq DOMAIN snapshots \cup {None}
BY DEF Names, Tokens, Ids

(* A call that is refused. *)
LEMMA RefusedCall == ASSUME Refused PROVE Next
<1>1. getTopology(None)
  BY DEF getTopology, Query
<1> QED BY <1>1 DEF Next, Queries, Ids

(* Calls that cut. *)
LEMMA CutCall == ASSUME CutCalls PROVE Next
<1>1. ASSUME NEW id \in Names, NEW shape \in Shape, NEW n \in 0 .. MaxPieces,
             \/ BooleanCut(id, n, shape) \/ SeparateSolids(id, n, shape)
             \/ DeleteFace(id, n, shape)
      PROVE  Next
  BY <1>1, Passed DEF Next, Cuts, BooleanCut, SeparateSolids, DeleteFace
<1>2. ASSUME NEW id \in Names, NEW shape \in Shape, NEW n \in 0 .. MaxPieces,
             NEW negative \in BOOLEAN,
             RemoveProtrusions(id, n, shape) \/ SplitBodyByBends(id, negative, n, shape)
      PROVE  Next
  BY <1>2, Passed DEF Next, Sheets, RemoveProtrusions, SplitBodyByBends
<1>3. ASSUME NEW id \in Names, NEW shape \in Shape, SplitBodyByPlane(id, shape)
      PROVE  Next
  BY <1>3, Passed DEF Next, Sheets, SplitBodyByPlane
<1>4. ASSUME NEW id \in Names, NEW shape \in Shape, TrimBodyWithPlane(id, shape)
      PROVE  Next
  BY <1>4, Passed DEF Next, Edits, TrimBodyWithPlane
<1>5. ASSUME NEW id \in Names, NEW shape \in Shape, NEW keep \in BOOLEAN,
             NEW tools \in SUBSET Names, CutBodies(id, tools, keep, shape)
      PROVE  Next
  <2>1. Refused \/ (tools \subseteq Shells /\ cutBodies(id, tools, keep, shape))
    BY <1>5 DEF CutBodies, cutBodies
  <2> QED BY <2>1, Passed, RefusedCall DEF Next, Cuts
<1>6. BOOLEAN # {}
  OBVIOUS
<1> QED BY <1>1, <1>2, <1>3, <1>4, <1>5, <1>6 DEF CutCalls

(* Calls that move. *)
LEMMA TransformCall == ASSUME TransformCalls PROVE Next
BY Passed DEF TransformCalls, Next, Transforms, TranslateBody, RotateBody, MirrorBody,
              ScaleBody, AlignToFace

(* Calls on one body. *)
LEMMA EditCall == ASSUME EditCalls PROVE Next
<1>1. ASSUME NEW id \in Names, NEW shape \in Shape,
             \/ FilletEdges(id, shape) \/ ChamferEdges(id, shape) \/ SimplifyBody(id, shape)
             \/ HealGeometry(id, shape) \/ HealGeometryEx(id, shape)
             \/ OffsetShape(id, shape) \/ RipEdge(id, shape)
             \/ ReconstructCurvedBends(id, shape)
      PROVE  Next
  BY <1>1, Passed
     DEF Next, Edits, FilletEdges, ChamferEdges, SimplifyBody, HealGeometry,
         HealGeometryEx, OffsetShape, RipEdge, ReconstructCurvedBends
<1>2. ASSUME NEW id \in Names, NEW shape \in Shape, NEW option \in BOOLEAN,
             OffsetFace(id, option, shape) \/ AddFlange(id, option, shape)
      PROVE  Next
  BY <1>2, Passed DEF Next, Edits, OffsetFace, AddFlange
<1>3. ASSUME NEW id \in Names, AddRivetHole(id) PROVE Next
  BY <1>3, Passed DEF Next, Joins, AddRivetHole
<1>4. ASSUME NEW id \in Names, NEW shape \in Shape, NEW t \in Tokens,
             CenterAndAlignBody(id, shape, t)
      PROVE  Next
  BY <1>4, Passed DEF Next, Edits, CenterAndAlignBody
<1> QED BY <1>1, <1>2, <1>3, <1>4 DEF EditCalls

(* Calls on two bodies. *)
LEMMA PairCall == ASSUME PairCalls PROVE Next
<1>1. ASSUME NEW a \in Names, NEW b \in Names, NEW shape \in Shape,
             IntersectBodies(a, b, shape)
      PROVE  Next
  BY <1>1, Passed DEF Next, Cuts, IntersectBodies
<1>2. ASSUME NEW a \in Names, NEW b \in Names, NEW shape \in Shape,
             NEW t \in {"plane", "face_id"},
             CloseGap(a, b, shape) \/ ExtendFaceToTarget(a, t, b, shape)
      PROVE  Next
  BY <1>2, Passed DEF Next, Edits, CloseGap, ExtendFaceToTarget
<1>3. ASSUME NEW a \in Names, NEW b \in Names, AddTabSlot(a, b) PROVE Next
  BY <1>3, Passed DEF Next, Joins, AddTabSlot
<1>4. ASSUME NEW a \in Names, NEW b \in Names, NEW shape \in Shape,
             NEW positive \in BOOLEAN,
             MergeBodiesWithBend(a, b, positive, shape) \/ ApplyBend(a, b, positive, shape)
      PROVE  Next
  BY <1>4, Passed DEF Next, Sheets, MergeBodiesWithBend, ApplyBend
<1>5. {"plane", "face_id"} # {}
  OBVIOUS
<1> QED BY <1>1, <1>2, <1>3, <1>4, <1>5 DEF PairCalls

(* Calls that import, sew and fold. *)
LEMMA SheetCall == ASSUME SheetCalls PROVE Next
<1>1. ASSUME NEW shape \in Shape, LoadStep(shape) \/ BuildSheetFromDxf(shape) PROVE Next
  BY <1>1 DEF Next, Joins, Sheets, LoadStep, BuildSheetFromDxf
<1>2. ASSUME NEW shape \in Shape, NEW n \in 0 .. MaxPieces, BuildShellFromFlatPattern(n, shape)
      PROVE  Next
  BY <1>2 DEF Next, Sheets, BuildShellFromFlatPattern
<1>3. ASSUME NEW shape \in Shape, NEW entities \in SUBSET Names, NEW solid \in BOOLEAN,
             SewFaces(entities, shape, solid)
      PROVE  Next
  <2>1. CASE entities \subseteq Parts
    BY <1>3, <2>1 DEF Next, Joins, SewFaces
  <2>2. CASE ~ (entities \subseteq Parts)
    <3>1. sewFaces({}, shape, solid) /\ {} \in SUBSET Parts
      BY <1>3, <2>2 DEF SewFaces, sewFaces
    <3> QED BY <3>1 DEF Next, Joins
  <2> QED BY <2>1, <2>2
<1>4. ASSUME NEW id \in Names, NEW shape \in Shape, NEW positive \in BOOLEAN,
             UnfoldShell(id, shape) \/ ThickenSheet(id, positive, shape)
      PROVE  Next
  BY <1>4, Passed DEF Next, Sheets, UnfoldShell, ThickenSheet
<1>5. ASSUME NEW ids \in SUBSET Names, NestShells(ids) PROVE Next
  <2>1. Refused \/ (ids \subseteq DOMAIN live.unfolds /\ nestShells(ids))
    BY <1>5 DEF NestShells, nestShells
  <2> QED BY <2>1, RefusedCall DEF Next, Sheets
<1>6. BOOLEAN # {}
  OBVIOUS
<1> QED BY <1>1, <1>2, <1>3, <1>4, <1>5, <1>6 DEF SheetCalls

(* Calls that look. *)
LEMMA QueryCall == ASSUME QueryCalls PROVE Next
<1>1. CASE TypeError
  BY <1>1, RefusedCall DEF TypeError
<1>2. ASSUME NEW id \in Names,
             \/ GetTopology(id) \/ CheckManifold(id) \/ ValidateSheetMetal(id)
             \/ MeasurePanelThickness(id) \/ GetPanelFrame(id) \/ ExportGlb(id)
             \/ ComputeBoundingBox(id) \/ ComputeMassProperties(id)
             \/ ExploreTopology(id) \/ ExportDxf(id)
      PROVE  Next
  BY <1>2, Passed
     DEF Next, Queries, GetTopology, CheckManifold, ValidateSheetMetal,
         MeasurePanelThickness, GetPanelFrame, ExportGlb, ComputeBoundingBox,
         ComputeMassProperties, ExploreTopology, ExportDxf
<1>3. ASSUME NEW a \in Names, NEW b \in Names,
             \/ MeasureDistance(a, b) \/ ComputeIntersections(a, b)
             \/ CheckAssemblyClashes(a, b) \/ ComputeGaps(a, b)
      PROVE  Next
  BY <1>3, Passed
     DEF Next, Queries, MeasureDistance, ComputeIntersections, CheckAssemblyClashes, ComputeGaps
<1> QED BY <1>1, <1>2, <1>3 DEF QueryCalls

(* Calls on assemblies, and on snapshots. *)
LEMMA InstanceCall == ASSUME InstanceCalls PROVE Next
BY Passed DEF InstanceCalls, Next, AssemblyCalls, CreateAssemblyDocument,
              AddAssemblyInstance, MateRig, ListAssemblyTree

LEMMA SnapshotCall == ASSUME SnapshotCalls PROVE Next
BY Passed DEF SnapshotCalls, Next, Snapshots, CreateSnapshotCall, RestoreSnapshotCall,
              ClearSnapshotsCall, ClearStateCall

LEMMA CallIsNext == [CallNext]_callVars => [Next]_vars
<1>1. UNCHANGED callVars => UNCHANGED vars
  BY DEF callVars, vars
<1> QED BY <1>1, CutCall, TransformCall, EditCall, PairCall, SheetCall, QueryCall,
           InstanceCall, SnapshotCall DEF CallNext

(* What JavaScript can make the kernel do is what the kernel does: none of *)
(* the functions of geometry_binding reaches its state another way.        *)
THEOREM CallsAreKernelSteps == CallSpec => Spec
<1>1. CallInit => Init
  BY DEF CallInit
<1> QED BY <1>1, CallIsNext, PTL DEF CallSpec, Spec

(* So the calls have the properties of the kernel: the registries stay     *)
(* consistent, tokens keep standing for what they stood for, a failed call *)
(* keeps the bodies or a snapshot of them, and assemblies resolve.         *)
COROLLARY CallsKeepTheRegistries ==
    CallSpec => /\ []RegistryConsistent /\ TokensKeepTheStateBefore
                /\ FailedCallKeepsBodies /\ []ComponentsResolve
BY CallsAreKernelSteps, KernelRegistryConsistent, KernelTokensKeepTheStateBefore,
   KernelFailedCallKeepsBodies, KernelComponentsResolve
-----------------------------------------------------------------------------
(* What a call hands over.                                                 *)

(* The bodies of h are those of g and S. *)
Grows(g, h, S) == IsRegistries(h) /\ Bodies(h) \subseteq Bodies(g) \cup S

(* Which bodies each change of the registries makes. *)
LEMMA GrowsOn ==
    ASSUME NEW g, NEW h, NEW S, Grows(g, h, S)
    PROVE  /\ \A T : Grows(g, Without(h, T), S) /\ Grows(g, [h EXCEPT !.shells = Drop(@, T)], S)
           /\ \A x : Grows(g, Erased(h, x), S)
           /\ \A x, shape : /\ Grows(g, WithSolid(h, x, shape), S \cup {x})
                            /\ Grows(g, Reshaped(h, x, shape), S)
                            /\ \A p : Grows(g, WithShell(h, x, p, shape), S \cup {x})
           /\ \A first, n, p, shape :
                 Grows(g, WithShells(h, first, n, p, shape), S \cup Many(first, n))
           /\ \A x, source, improved : Grows(g, WithUnfold(h, x, source, improved), S)
<1>1. ASSUME NEW k, NEW i, NEW j, NEW u, NEW T,
             k = [solids |-> i, shells |-> j, unfolds |-> u, assemblies |-> h.assemblies],
             DOMAIN i \cup DOMAIN j \subseteq Bodies(h) \cup T
      PROVE  Grows(g, k, S \cup T)
  BY <1>1 DEF Grows, IsRegistries, Bodies
<1>2. h = [solids |-> h.solids, shells |-> h.shells,
           unfolds |-> h.unfolds, assemblies |-> h.assemblies]
  BY DEF Grows, IsRegistries
<1>3. S \cup {} = S
  OBVIOUS
<1>4. ASSUME NEW T
      PROVE  Grows(g, Without(h, T), S) /\ Grows(g, [h EXCEPT !.shells = Drop(@, T)], S)
  <2> PICK i : i = Drop(h.solids, T)
    OBVIOUS
  <2> PICK j : j = Drop(h.shells, T)
    OBVIOUS
  <2>1. DOMAIN i \subseteq DOMAIN h.solids /\ DOMAIN j \subseteq DOMAIN h.shells
    BY DEF Drop
  <2> PICK k : k = [h EXCEPT !.solids = i, !.shells = j]
    OBVIOUS
  <2>2. k = [solids |-> i, shells |-> j, unfolds |-> h.unfolds, assemblies |-> h.assemblies]
    BY <1>2
  <2>6. Without(h, T) = k
    BY DEF Without
  <2>3. [h EXCEPT !.shells = Drop(@, T)] =
           [solids |-> h.solids, shells |-> j, unfolds |-> h.unfolds, assemblies |-> h.assemblies]
    BY <1>2
  <2>4. Grows(g, Without(h, T), S \cup {})
    BY <1>1, <2>1, <2>2, <2>6 DEF Bodies
  <2>5. Grows(g, [h EXCEPT !.shells = Drop(@, T)], S \cup {})
    BY <1>1, <2>1, <2>3 DEF Bodies
  <2> QED BY <1>3, <2>4, <2>5
<1>5. ASSUME NEW x PROVE Grows(g, Erased(h, x), S)
  <2> PICK i : i = Drop(h.solids, {x})
    OBVIOUS
  <2> PICK j : j = Drop(h.shells, {x})
    OBVIOUS
  <2>1. DOMAIN i \subseteq DOMAIN h.solids /\ DOMAIN j \subseteq DOMAIN h.shells
    BY DEF Drop
  <2>2. Erased(h, x) = [solids |-> IF x \in DOMAIN h.shells THEN h.solids ELSE i,
                        shells |-> IF x \in DOMAIN h.shells THEN j ELSE h.shells,
                        unfolds |-> h.unfolds, assemblies |-> h.assemblies]
    BY <1>2 DEF Erased
  <2>3. Grows(g, Erased(h, x), S \cup {})
    BY <1>1, <2>1, <2>2 DEF Bodies
  <2> QED BY <1>3, <2>3
<1>6. ASSUME NEW x, NEW shape
      PROVE  Grows(g, WithSolid(h, x, shape), S \cup {x})
  <2> PICK i : i = Put(h.solids, x, shape)
    OBVIOUS
  <2>1. DOMAIN i = DOMAIN h.solids \cup {x}
    BY DEF Put
  <2>2. WithSolid(h, x, shape) = [solids |-> i, shells |-> h.shells,
                                  unfolds |-> h.unfolds, assemblies |-> h.assemblies]
    BY <1>2 DEF WithSolid
  <2> QED BY <1>1, <2>1, <2>2 DEF Bodies
<1>7. ASSUME NEW x, NEW shape, NEW p
      PROVE  Grows(g, WithShell(h, x, p, shape), S \cup {x})
  <2> PICK j : j = Put(h.shells, x, ShellState(p, shape))
    OBVIOUS
  <2>1. DOMAIN j = DOMAIN h.shells \cup {x}
    BY DEF Put
  <2>2. WithShell(h, x, p, shape) = [solids |-> h.solids, shells |-> j,
                                     unfolds |-> h.unfolds, assemblies |-> h.assemblies]
    BY <1>2 DEF WithShell
  <2> QED BY <1>1, <2>1, <2>2 DEF Bodies
<1>8. ASSUME NEW x, NEW shape PROVE Grows(g, Reshaped(h, x, shape), S)
  <2> PICK i : i = IF x \in DOMAIN h.shells THEN h.solids ELSE [h.solids EXCEPT ![x] = shape]
    OBVIOUS
  <2> PICK j : j = IF x \in DOMAIN h.shells THEN [h.shells EXCEPT ![x].shape = shape] ELSE h.shells
    OBVIOUS
  <2>1. DOMAIN i = DOMAIN h.solids /\ DOMAIN j = DOMAIN h.shells
    OBVIOUS
  <2>2. Reshaped(h, x, shape) = [solids |-> i, shells |-> j,
                                 unfolds |-> h.unfolds, assemblies |-> h.assemblies]
    BY <1>2 DEF Reshaped
  <2>3. Grows(g, Reshaped(h, x, shape), S \cup {})
    BY <1>1, <2>1, <2>2 DEF Bodies
  <2> QED BY <1>3, <2>3
<1>9. ASSUME NEW first, NEW n, NEW p, NEW shape
      PROVE  Grows(g, WithShells(h, first, n, p, shape), S \cup Many(first, n))
  <2> PICK j : j = [x \in DOMAIN h.shells \cup Many(first, n) |->
                       IF x \in DOMAIN h.shells THEN h.shells[x] ELSE ShellState(p, shape)]
    OBVIOUS
  <2>1. DOMAIN j = DOMAIN h.shells \cup Many(first, n)
    OBVIOUS
  <2>2. WithShells(h, first, n, p, shape) = [solids |-> h.solids, shells |-> j,
                                             unfolds |-> h.unfolds, assemblies |-> h.assemblies]
    BY <1>2 DEF WithShells, Many
  <2> QED BY <1>1, <2>1, <2>2 DEF Bodies
<1>10. ASSUME NEW x, NEW source, NEW improved
       PROVE  Grows(g, WithUnfold(h, x, source, improved), S)
  <2> PICK u : u = Put(h.unfolds, x, UnfoldState(source, improved))
    OBVIOUS
  <2>1. WithUnfold(h, x, source, improved) = [solids |-> h.solids, shells |-> h.shells,
                                              unfolds |-> u, assemblies |-> h.assemblies]
    BY <1>2 DEF WithUnfold
  <2>2. Grows(g, WithUnfold(h, x, source, improved), S \cup {})
    BY <1>1, <2>1 DEF Bodies
  <2> QED BY <1>3, <2>2
<1> QED BY <1>4, <1>5, <1>6, <1>7, <1>8, <1>9, <1>10

(* No body has the id of a new one, and none of those is None. *)
LEMMA NewIds ==
    ASSUME KernelInv
    PROVE  /\ IsRegistries(live) /\ Grows(live, live, {})
           /\ \A i \in Nat : Id(i) # None /\ Id(i) \notin Bodies(live)
           /\ \A n \in Nat, i \in Nat : None \notin Many(i, n)
<1>1. nextId \in Nat \ {0} /\ WellFormed(live, nextId)
  BY LiveIsWellFormed DEF KernelInv, RegistryConsistent
<1>2. IsRegistries(live) /\ Grows(live, live, {})
  BY <1>1 DEF WellFormed, IsRegistries, Grows
<1>3. ASSUME NEW i \in Nat PROVE Id(i) # None /\ Id(i) \notin Bodies(live)
  <2>1. Id(i)[1] = nextId + i /\ None[1] = 0
    BY DEF Id, None
  <2>2. nextId + i # 0 /\ ~ (nextId + i \in 1 .. nextId - 1)
    BY <1>1
  <2>3. \A x \in Bodies(live) : x[1] \in 1 .. nextId - 1
    BY <1>1 DEF WellFormed, Issued, Bodies
  <2> QED BY <2>1, <2>2, <2>3
<1>4. ASSUME NEW n \in Nat, NEW i \in Nat PROVE None \notin Many(i, n)
  <2>1. \A j \in 0 .. n - 1 : i + j \in Nat
    OBVIOUS
  <2> QED BY <1>3, <2>1 DEF Many
<1> QED BY <1>2, <1>3, <1>4

(* New bodies leave the old ones alone. *)
LEMMA NewBodyKeeps ==
    ASSUME NEW g, IsRegistries(g), NEW x, x \notin Bodies(g), NEW shape
    PROVE  Kept(g, WithSolid(g, x, shape)) /\ \A p : Kept(g, WithShell(g, x, p, shape))
<1>1. ASSUME NEW h, h = WithSolid(g, x, shape) PROVE Kept(g, h)
  <2>1. h.solids = Put(g.solids, x, shape) /\ h.shells = g.shells
    BY <1>1 DEF WithSolid, IsRegistries
  <2> QED BY <2>1 DEF Kept, Bodies, ShapeOf, Put
<1>2. ASSUME NEW p, NEW h, h = WithShell(g, x, p, shape) PROVE Kept(g, h)
  <2>1. h.shells = Put(g.shells, x, ShellState(p, shape)) /\ h.solids = g.solids
    BY <1>2 DEF WithShell, IsRegistries
  <2> QED BY <2>1 DEF Kept, Bodies, ShapeOf, Put
<1> QED BY <1>1, <1>2

(* A call its caller can undo, and one that leaves no body unnamed. *)
Undone == \/ ~ last'.ok \/ Kept(live, live') \/ (snapshots' = Snapshot /\ Id(0) \in told')

Named == ~ last'.ok \/ Bodies(live') \ Bodies(live) \subseteq told'

HandsOver == Undone /\ Named

(* A call that fails or changes no body. *)
LEMMA QuietCall ==
    ASSUME \/ ~ last'.ok \/ live' = live
           \/ live'.solids = live.solids /\ live'.shells = live.shells
    PROVE  HandsOver
BY DEF HandsOver, Undone, Named, Kept, Bodies, ShapeOf

(* The answers of such calls. *)
LEMMA QuietAnswers ==
    /\ Refused \/ Answered \/ NotDone => HandsOver
    /\ \A n : Done(live, n) \/ DoneNoToken(live, n) => HandsOver
    /\ \A g, n, hint : Failed(g, n, hint) => HandsOver
    /\ \A g, n : Unguarded(g, n, FALSE) => HandsOver
    /\ \A ids, registry : Query(ids, registry) => HandsOver
BY QuietCall DEF Query, Refused, Answered, NotDone, Done, DoneNoToken, Failed, Unguarded,
                 Guarded, Answer

(* A call that says so hands over the new bodies and the token. *)
LEMMA DoneCall ==
    ASSUME KernelInv, NEW g, NEW n, NEW S, Grows(live, g, S), None \notin S, Done(g, n),
           NEW T, S \subseteq T, Returns(T)
    PROVE  HandsOver
<1>1. /\ live' = g /\ snapshots' = Snapshot /\ last'.ok /\ last'.token = Id(0)
  BY DEF Done, Guarded, Answer
<1>2. Id(0) # None
  BY NewIds
<1>3. S \subseteq told' /\ Id(0) \in told'
  BY <1>1, <1>2 DEF Returns, ReturnsOnly
<1> QED BY <1>1, <1>3 DEF HandsOver, Undone, Named, Grows

(* A call that leaves the bodies alone hands over the new ones. *)
LEMMA AddedCall ==
    ASSUME KernelInv, NEW g, NEW S, Grows(live, g, S), None \notin S, Kept(live, g), live' = g,
           NEW T, S \subseteq T, ReturnsOnly(T)
    PROVE  HandsOver
BY DEF HandsOver, Undone, Named, Grows, ReturnsOnly

(* What GrowsOn says of the registries as they are. *)
LEMMA GrowsLive ==
    ASSUME KernelInv
    PROVE  /\ Grows(live, live, {})
           /\ \A T : Grows(live, Without(live, T), {})
                    /\ Grows(live, [live EXCEPT !.shells = Drop(@, T)], {})
           /\ \A x : Grows(live, Erased(live, x), {})
           /\ \A x, shape : /\ Grows(live, WithSolid(live, x, shape), {x})
                            /\ Grows(live, Reshaped(live, x, shape), {})
                            /\ \A p : Grows(live, WithShell(live, x, p, shape), {x})
           /\ \A first, n, p, shape :
                 Grows(live, WithShells(live, first, n, p, shape), Many(first, n))
           /\ \A x, source, improved : Grows(live, WithUnfold(live, x, source, improved), {})
<1>1. Grows(live, live, {})
  BY NewIds
<1>2. \A S : {} \cup S = S
  OBVIOUS
<1> QED BY <1>1, <1>2, GrowsOn

(* Calls that register several pieces. *)
LEMMA PiecesCall ==
    ASSUME KernelInv, NEW n \in Nat, NEW p, NEW shape, NEW id,
           \/ Done(WithShells(live, 1, n, p, shape), n)
           \/ Done(WithShells(Erased(live, id), 1, n, p, shape), n)
           \/ Done(Reshaped(WithShells(live, 1, n, p, shape), id, shape), n),
           NEW T, Many(1, n) \subseteq T, Returns(T)
    PROVE  HandsOver
<1> PICK S : S = Many(1, n)
  OBVIOUS
<1>1. None \notin S /\ S \subseteq T
  BY NewIds
<1>2. Grows(live, WithShells(live, 1, n, p, shape), S)
  BY GrowsLive
<1>3. Grows(live, WithShells(Erased(live, id), 1, n, p, shape), S)
  <2>1. Grows(live, Erased(live, id), {}) /\ {} \cup S = S
    BY GrowsLive
  <2> QED BY <2>1, GrowsOn
<1>4. Grows(live, Reshaped(WithShells(live, 1, n, p, shape), id, shape), S)
  BY <1>2, GrowsOn
<1> QED BY <1>1, <1>2, <1>3, <1>4, DoneCall

(* A call that hands over its token and makes no body. *)
LEMMA ReshapedCall ==
    ASSUME KernelInv, NEW id, NEW shape, NEW n,
           \/ Done(Reshaped(live, id, shape), n) \/ ReplacedThenTraced(id, shape),
           NEW T, Returns(T)
    PROVE  HandsOver
<1> PICK g : g = Reshaped(live, id, shape)
  OBVIOUS
<1>1. Grows(live, g, {}) /\ None \notin {} /\ {} \subseteq T
  BY GrowsLive
<1>2. ASSUME NEW m, Done(g, m) PROVE HandsOver
  BY <1>1, <1>2, DoneCall
<1>3. Done(g, n) \/ Done(g, 0) \/ Failed(g, 0, TRUE)
  BY DEF ReplacedThenTraced
<1>4. Failed(g, 0, TRUE) => HandsOver
  BY QuietAnswers
<1> QED BY <1>2, <1>3, <1>4

(* Calls that cut. *)
LEMMA CutHandsOver == ASSUME KernelInv, CutCalls PROVE HandsOver
<1>0. 0 .. MaxPieces \subseteq Nat
  OBVIOUS
<1>1. ASSUME NEW id, NEW n \in Nat, NEW shape, BooleanCut(id, n, shape) PROVE HandsOver
  BY <1>1, QuietAnswers, PiecesCall DEF BooleanCut, booleanCut
<1>2. ASSUME NEW id, NEW n \in Nat, NEW shape, SeparateSolids(id, n, shape) PROVE HandsOver
  <2>1. CASE Refused
    BY <2>1, QuietAnswers
  <2>2. ASSUME id \in Solids, Unguarded(WithShells(live, 0, n, id, shape), n, TRUE)
        PROVE  HandsOver
    <3> PICK g : g = WithShells(live, 0, n, id, shape)
      OBVIOUS
    <3> PICK m : m = nextId
      OBVIOUS
    <3>1. MayBeParent(id, live, nextId) /\ m \in Nat \ {0} /\ WellFormed(live, m)
      BY <2>2, Parents DEF KernelInv, RegistryConsistent
    <3>2. Kept(live, g)
      BY <3>1, FreshShells
    <3>3. Grows(live, g, Many(0, n)) /\ None \notin Many(0, n)
      BY GrowsLive, NewIds
    <3>4. live' = g /\ ReturnsOnly(Many(0, n))
      BY <1>2, <2>2 DEF SeparateSolids, Unguarded
    <3> QED BY <3>2, <3>3, <3>4, AddedCall
  <2> QED BY <1>2, <2>1, <2>2 DEF SeparateSolids, separateSolids
<1>3. ASSUME NEW id, NEW n \in Nat, NEW shape, DeleteFace(id, n, shape) PROVE HandsOver
  BY <1>3, QuietAnswers, PiecesCall DEF DeleteFace, deleteFace, DeleteFaceResult
<1>4. ASSUME NEW id, NEW n \in Nat, NEW shape, RemoveProtrusions(id, n, shape) PROVE HandsOver
  <2> PICK p : p = ParentFor(live, id)
    OBVIOUS
  <2> PICK T : T = {id} \cup Many(1, n)
    OBVIOUS
  <2>1. Many(1, n) \subseteq T /\ Returns(T)
    BY <1>4 DEF RemoveProtrusions
  <2>2. \/ Refused \/ Failed(WithShells(live, 1, n, p, shape), n, FALSE)
        \/ Done(WithShells(live, 1, n, p, shape), n)
        \/ Done(Reshaped(WithShells(live, 1, n, p, shape), id, shape), n)
    BY <1>4 DEF RemoveProtrusions, removeProtrusions, removeProtrusionsLegacy
  <2> QED BY <2>1, <2>2, QuietAnswers, PiecesCall
<1>5. ASSUME NEW id, NEW negative, NEW n \in Nat, NEW shape,
             SplitBodyByBends(id, negative, n, shape)
      PROVE  HandsOver
  BY <1>5, QuietAnswers, PiecesCall DEF SplitBodyByBends, splitBodyByBends
<1>6. ASSUME NEW id, NEW shape, SplitBodyByPlane(id, shape) PROVE HandsOver
  BY <1>6, QuietAnswers, PiecesCall DEF SplitBodyByPlane, splitBodyByPlane
<1>7. ASSUME NEW id, NEW shape, TrimBodyWithPlane(id, shape) PROVE HandsOver
  BY <1>7, QuietAnswers, ReshapedCall DEF TrimBodyWithPlane, trimBodyWithPlane
<1>8. ASSUME NEW id, NEW tools, NEW keep, NEW shape, CutBodies(id, tools, keep, shape)
      PROVE  HandsOver
  <2>1. ASSUME NEW S, Done(WithShell([live EXCEPT !.shells = Drop(@, S)], Id(1), None, shape), 1)
        PROVE  HandsOver
    <3> PICK x : x = Id(1)
      OBVIOUS
    <3>1. Grows(live, [live EXCEPT !.shells = Drop(@, S)], {}) /\ {} \cup {x} = {x} /\ None \notin {x}
      BY GrowsLive, NewIds
    <3>2. Grows(live, WithShell([live EXCEPT !.shells = Drop(@, S)], x, None, shape), {x})
      BY <3>1, GrowsOn
    <3>3. Returns({x})
      BY <1>8 DEF CutBodies
    <3> QED BY <2>1, <3>1, <3>2, <3>3, DoneCall
  <2>2. \/ Refused \/ NotDone
        \/ \E S : Done(WithShell([live EXCEPT !.shells = Drop(@, S)], Id(1), None, shape), 1)
    BY <1>8, Zenon DEF CutBodies, cutBodies
  <2>3. Refused \/ NotDone => HandsOver
    BY QuietAnswers
  <2> QED BY <2>1, <2>2, <2>3
<1> QED BY <1>0, <1>1, <1>2, <1>3, <1>4, <1>5, <1>6, <1>7, <1>8 DEF CutCalls

(* Calls that move: the image has a new id. *)
LEMMA TransformHandsOver == ASSUME KernelInv, TransformCalls PROVE HandsOver
<1>1. ASSUME NEW id, NEW shape, NEW keep, Transform(id, shape, keep), TransformResult
      PROVE  HandsOver
  <2> PICK g : g = IF keep THEN live ELSE Erased(live, id)
    OBVIOUS
  <2> PICK x : x = Id(1)
    OBVIOUS
  <2>1. Grows(live, g, {}) /\ {} \cup {x} = {x} /\ None \notin {x}
    BY GrowsLive, NewIds
  <2>2. Grows(live, WithShell(g, x, None, shape), {x}) /\ Grows(live, WithSolid(g, x, shape), {x})
    BY <2>1, GrowsOn
  <2>3. Grows(live, Result(g, id, shape), {x})
    BY <2>2 DEF Result
  <2>4. Returns({x})
    BY <1>1 DEF TransformResult
  <2>5. Refused \/ NotDone \/ Done(Result(g, id, shape), 1)
    BY <1>1 DEF Transform
  <2>6. Refused \/ NotDone => HandsOver
    BY QuietAnswers
  <2> QED BY <2>1, <2>3, <2>4, <2>5, <2>6, DoneCall
<1>2. ~ last'.ok => HandsOver
  BY QuietCall
<1>3. Refused => ~ last'.ok
  BY DEF Refused, Answer
<1>4. ASSUME NEW id, NEW shape, NEW keep, AlignToFace(id, shape, keep) PROVE HandsOver
  BY <1>1, <1>2, <1>3, <1>4 DEF AlignToFace, alignToFace, Answer
<1>5. ASSUME NEW id, NEW shape, NEW keep, NEW positive,
             \/ TranslateBody(id, shape, keep) \/ RotateBody(id, shape, keep)
             \/ MirrorBody(id, shape, keep) \/ ScaleBody(id, shape, keep, positive)
      PROVE  HandsOver
  BY <1>1, <1>2, <1>3, <1>5
     DEF TranslateBody, RotateBody, MirrorBody, ScaleBody, translateBody, rotateBody,
         mirrorBody, scaleBody
<1> QED BY <1>4, <1>5 DEF TransformCalls

(* centerAndAlignBody names the body and has no token of its own. *)
LEMMA CenterCall ==
    ASSUME KernelInv, NEW id, NEW shape, NEW t, centerAndAlignBody(id, shape, t)
    PROVE  Named
<1>1. Grows(live, Reshaped(live, id, shape), {})
  BY GrowsLive
<1>2. CASE Refused
  BY <1>2 DEF Refused, Answer, Named
<1>3. CASE live' = Reshaped(live, id, shape)
  BY <1>1, <1>3 DEF Grows, Named
<1> QED BY <1>2, <1>3 DEF centerAndAlignBody

(* Calls on one body. *)
LEMMA EditHandsOver ==
    ASSUME KernelInv, EditCalls
    PROVE  HandsOver \/ (Named /\ \E id \in Names, shape \in Shape, t \in Tokens :
                                     CenterAndAlignBody(id, shape, t))
<1>1. ASSUME NEW id, NEW shape, NEW T, InPlace(id, shape), Returns(T) PROVE HandsOver
  BY <1>1, QuietAnswers, ReshapedCall DEF InPlace
<1>2. ASSUME NEW id, NEW shape,
             \/ FilletEdges(id, shape) \/ ChamferEdges(id, shape) \/ SimplifyBody(id, shape)
             \/ HealGeometryEx(id, shape) \/ OffsetShape(id, shape)
      PROVE  HandsOver
  BY <1>1, <1>2
     DEF FilletEdges, ChamferEdges, SimplifyBody, HealGeometryEx, OffsetShape, filletEdges,
         chamferEdges, simplifyBody, healGeometryEx, offsetShape, StandardResult, HealExResult
<1>3. ASSUME NEW id, NEW shape, HealGeometry(id, shape) PROVE HandsOver
  <2> PICK x : x = Id(0)
    OBVIOUS
  <2>1. CASE Refused
    BY <2>1, QuietAnswers
  <2>2. CASE live' = WithSolid(live, x, shape)
    <3>1. IsRegistries(live) /\ x \notin Bodies(live) /\ None \notin {x}
      BY NewIds
    <3>2. Kept(live, WithSolid(live, x, shape)) /\ Grows(live, WithSolid(live, x, shape), {x})
      BY <3>1, NewBodyKeeps, GrowsLive
    <3>3. ReturnsOnly({x})
      BY <1>3 DEF HealGeometry
    <3> QED BY <2>2, <3>1, <3>2, <3>3, AddedCall
  <2> QED BY <1>3, <2>1, <2>2 DEF HealGeometry, healGeometry, Unguarded
<1>4. ASSUME NEW id, NEW shape, NEW option,
             OffsetFace(id, option, shape) \/ AddFlange(id, option, shape)
      PROVE  HandsOver
  BY <1>4, QuietAnswers, ReshapedCall DEF OffsetFace, AddFlange, offsetFace, addFlange
<1>5. ASSUME NEW id, NEW shape, RipEdge(id, shape) \/ ReconstructCurvedBends(id, shape)
      PROVE  HandsOver
  BY <1>5, QuietAnswers, ReshapedCall
     DEF RipEdge, ReconstructCurvedBends, ripEdge, reconstructCurvedBends
<1>6. ASSUME NEW id, AddRivetHole(id) PROVE HandsOver
  BY <1>6, QuietAnswers DEF AddRivetHole, addRivetHole
<1>7. ASSUME NEW id, NEW shape, NEW t, CenterAndAlignBody(id, shape, t) PROVE Named
  BY <1>7, CenterCall DEF CenterAndAlignBody
<1> QED BY <1>2, <1>3, <1>4, <1>5, <1>6, <1>7 DEF EditCalls

(* Calls on two bodies. *)
LEMMA PairHandsOver == ASSUME KernelInv, PairCalls PROVE HandsOver
<1>1. ASSUME NEW a, NEW b, NEW shape, IntersectBodies(a, b, shape) PROVE HandsOver
  <2> PICK g : g = [live EXCEPT !.shells = Drop(@, {a, b})]
    OBVIOUS
  <2> PICK x : x = Id(1)
    OBVIOUS
  <2>1. Grows(live, g, {}) /\ {} \cup {x} = {x} /\ None \notin {x}
    BY GrowsLive, NewIds
  <2>2. Grows(live, WithShell(g, x, None, shape), {x})
    BY <2>1, GrowsOn
  <2>3. Returns({x})
    BY <1>1 DEF IntersectBodies
  <2>4. Refused \/ NotDone => HandsOver
    BY QuietAnswers
  <2>5. Refused \/ NotDone \/ Done(WithShell(g, x, None, shape), 1)
    BY <1>1 DEF IntersectBodies, intersectBodies
  <2> QED BY <2>1, <2>2, <2>3, <2>4, <2>5, DoneCall
<1>2. ASSUME NEW a, NEW b, NEW shape, NEW t,
             CloseGap(a, b, shape) \/ ExtendFaceToTarget(a, t, b, shape)
      PROVE  HandsOver
  BY <1>2, QuietAnswers, ReshapedCall
     DEF CloseGap, ExtendFaceToTarget, closeGap, extendFaceToTarget
<1>3. ASSUME NEW a, NEW b, AddTabSlot(a, b) PROVE HandsOver
  BY <1>3, QuietAnswers DEF AddTabSlot, addTabSlot
<1>4. ASSUME NEW a, NEW b, NEW shape, NEW positive,
             MergeBodiesWithBend(a, b, positive, shape) \/ ApplyBend(a, b, positive, shape)
      PROVE  HandsOver
  <2> PICK x : x = Id(1)
    OBVIOUS
  <2> PICK g : g = WithShell(live, x, live.shells[a].parent, shape)
    OBVIOUS
  <2>1. IsRegistries(live) /\ x \notin Bodies(live) /\ None \notin {x}
    BY NewIds
  <2>2. Kept(live, g) /\ Grows(live, g, {x})
    BY <2>1, NewBodyKeeps, GrowsLive
  <2>3. \/ Refused \/ NotDone \/ Failed(live, 0, FALSE) \/ Failed(g, 1, TRUE)
        \/ Done(g, 1) /\ Returns({x})
        \/ DoneNoToken(g, 1) /\ ReturnsOnly({x})
    BY <1>4 DEF MergeBodiesWithBend, ApplyBend, mergeBodiesWithBend, applyBend
  <2>4. Done(g, 1) /\ Returns({x}) => HandsOver
    BY <2>1, <2>2, DoneCall
  <2>5. DoneNoToken(g, 1) /\ ReturnsOnly({x}) => HandsOver
    BY <2>1, <2>2, AddedCall DEF DoneNoToken, Guarded
  <2>6. Refused \/ NotDone \/ Failed(live, 0, FALSE) \/ Failed(g, 1, TRUE) => HandsOver
    BY QuietAnswers
  <2> QED BY <2>3, <2>4, <2>5, <2>6
<1> QED BY <1>1, <1>2, <1>3, <1>4 DEF PairCalls

(* Calls that import, sew and fold.  The sheets a flat pattern is folded   *)
(* from are left unnamed.                                                  *)
LEMMA SheetHandsOver ==
    ASSUME KernelInv, SheetCalls
    PROVE  HandsOver \/ (Undone /\ \E n \in 0 .. MaxPieces, shape \in Shape :
                                      BuildShellFromFlatPattern(n, shape))
<1>0. /\ IsRegistries(live) /\ Id(0) \notin Bodies(live) /\ None \notin {Id(0)}
      /\ None \notin {Id(1)}
  BY NewIds
<1> PICK x : x = Id(0)
  OBVIOUS
<1> PICK y : y = Id(1)
  OBVIOUS
<1>1. ASSUME NEW shape, LoadStep(shape) PROVE HandsOver
  <2>1. Kept(live, WithSolid(live, x, shape)) /\ Grows(live, WithSolid(live, x, shape), {x})
    BY <1>0, NewBodyKeeps, GrowsLive
  <2>2. live' = WithSolid(live, x, shape) /\ ReturnsOnly({x}) => HandsOver
    BY <1>0, <2>1, AddedCall
  <2> QED BY <1>1, <2>2, QuietAnswers DEF LoadStep, loadStep, Unguarded
<1>2. ASSUME NEW p, NEW shape, live' = WithShell(live, x, p, shape), ReturnsOnly({x})
      PROVE  HandsOver
  <2>1. /\ Kept(live, WithShell(live, x, p, shape))
        /\ Grows(live, WithShell(live, x, p, shape), {x})
    BY <1>0, NewBodyKeeps, GrowsLive
  <2> QED BY <1>0, <1>2, <2>1, AddedCall
<1>3. ASSUME NEW shape, BuildSheetFromDxf(shape) PROVE HandsOver
  BY <1>2, <1>3, QuietAnswers DEF BuildSheetFromDxf, buildSheetFromDxf, Unguarded
<1>4. ASSUME NEW id, NEW positive, NEW shape, ThickenSheet(id, positive, shape) PROVE HandsOver
  BY <1>2, <1>4, QuietAnswers DEF ThickenSheet, thickenSheet, Unguarded
<1>5. ASSUME NEW n \in Nat, NEW shape, BuildShellFromFlatPattern(n, shape) PROVE Undone
  <2>1. CASE ~ last'.ok
    BY <2>1 DEF Undone
  <2>2. CASE live' = WithShells(live, 0, n, None, shape)
    <3> PICK g : g = WithShells(live, 0, n, None, shape)
      OBVIOUS
    <3> PICK h : h = live
      OBVIOUS
    <3>1. MayBeParent(None, h, nextId) /\ nextId \in Nat \ {0} /\ WellFormed(h, nextId)
      BY Parents DEF KernelInv, RegistryConsistent
    <3>2. g = WithShells(h, 0, n, None, shape)
      OBVIOUS
    <3>3. Kept(h, g)
      BY <3>1, <3>2, FreshShells
    <3> QED BY <2>2, <3>3 DEF Undone
  <2> QED BY <1>5, <2>1, <2>2
          DEF BuildShellFromFlatPattern, buildShellFromFlatPattern, Refused, Unguarded, Answer
<1>6. ASSUME NEW shape, NEW entities, NEW solid, SewFaces(entities, shape, solid)
      PROVE  HandsOver
  <2> PICK g : g = Without(live, entities)
    OBVIOUS
  <2>1. Grows(live, g, {}) /\ {} \cup {y} = {y}
    BY GrowsLive
  <2>2. Grows(live, WithShell(g, y, None, shape), {y}) /\ Grows(live, WithSolid(g, y, shape), {y})
    BY <2>1, GrowsOn
  <2>3. Returns({y})
    BY <1>6 DEF SewFaces, SewResult
  <2>4. Failed(live, 0, FALSE) \/ NotDone => HandsOver
    BY QuietAnswers
  <2>5. \/ Failed(live, 0, FALSE) \/ NotDone
        \/ Done(WithSolid(g, y, shape), 1) \/ Done(WithShell(g, y, None, shape), 1)
        \/ \E h : Failed(h, 1, TRUE)
    BY <1>6 DEF SewFaces, sewFaces
  <2> QED BY <1>0, <2>2, <2>3, <2>4, <2>5, DoneCall, QuietAnswers
<1>7. ASSUME NEW id, NEW shape, UnfoldShell(id, shape) PROVE HandsOver
  <2> PICK z : z = Improved(id)
    OBVIOUS
  <2> PICK g : g = WithUnfold(live, y, id, None)
    OBVIOUS
  <2> PICK h : h = WithUnfold(WithImproved(live, id, shape), y, id, z)
    OBVIOUS
  <2>1. \/ Refused \/ NotDone \/ Done(g, 1)
        \/ id \in Shells /\ Done(h, 1)
    BY <1>7 DEF UnfoldShell, unfoldShell
  <2>2. Refused \/ NotDone => HandsOver
    BY QuietAnswers
  <2>3. CASE Done(g, 1)
    <3> PICK T : T = {y, IF last'.ok THEN live'.unfolds[y].improved ELSE None}
      OBVIOUS
    <3>1. Grows(live, g, {}) /\ None \notin {} /\ {} \subseteq T
      BY GrowsLive
    <3>2. Returns(T)
      BY <1>7 DEF UnfoldShell
    <3> QED BY <2>3, <3>1, <3>2, DoneCall
  <2>4. CASE id \in Shells /\ Done(h, 1)
    <3> PICK k : k = WithImproved(live, id, shape)
      OBVIOUS
    <3>1. Grows(live, k, {z}) /\ IsRegistries(k)
      BY GrowsLive DEF WithImproved, Grows
    <3>2. Grows(live, h, {z})
      BY <3>1, GrowsOn
    <3>3. h.unfolds = Put(k.unfolds, y, UnfoldState(id, z))
      BY <3>1 DEF WithUnfold, IsRegistries
    <3>4. h.unfolds[y].improved = z
      BY <3>3 DEF Put, UnfoldState
    <3>5. live' = h /\ last'.ok
      BY <2>4 DEF Done, Guarded, Answer
    <3> PICK T : T = {y, IF last'.ok THEN live'.unfolds[y].improved ELSE None}
      OBVIOUS
    <3>6. {z} \subseteq T
      BY <3>4, <3>5
    <3>7. Returns(T)
      BY <1>7 DEF UnfoldShell
    <3>8. None \notin {z}
      <4>1. Issued(id, nextId)
        BY <2>4, LiveIsWellFormed DEF WellFormed, Shells
      <4>2. z[1] = id[1] /\ None[1] = 0
        BY DEF Improved, None
      <4> QED BY <4>1, <4>2 DEF Issued
    <3> QED BY <2>4, <3>2, <3>6, <3>7, <3>8, DoneCall
  <2> QED BY <2>1, <2>2, <2>3, <2>4
<1>8. ASSUME NEW ids, NestShells(ids) PROVE HandsOver
  <2>1. Refused => HandsOver
    BY QuietAnswers
  <2> QED BY <1>8, <2>1, QuietCall DEF NestShells, nestShells
<1>9. 0 .. MaxPieces \subseteq Nat
  OBVIOUS
<1> QED BY <1>1, <1>3, <1>4, <1>5, <1>6, <1>7, <1>8, <1>9 DEF SheetCalls

(* Calls that look, and calls on assemblies, which leave the bodies alone. *)
LEMMA QueryHandsOver == ASSUME QueryCalls PROVE HandsOver
<1>1. \/ Refused
      \/ \E ids, registry : Query(ids, registry)
  BY Zenon
     DEF QueryCalls, TypeError, GetTopology, CheckManifold, ValidateSheetMetal,
         MeasurePanelThickness, GetPanelFrame, ExportGlb, ComputeBoundingBox,
         ComputeMassProperties, ExploreTopology, ExportDxf, MeasureDistance,
         ComputeIntersections, CheckAssemblyClashes, ComputeGaps, getTopology,
         checkManifold, validateSheetMetal, measurePanelThickness, getPanelFrame,
         exportGlb, computeBoundingBox, computeMassProperties, exploreTopology,
         exportDxf, measureDistance, computeIntersections, checkAssemblyClashes, computeGaps
<1> QED BY <1>1, QuietAnswers

LEMMA InstanceHandsOver == ASSUME KernelInv, InstanceCalls PROVE HandsOver
<1>1. IsRegistries(live)
  BY NewIds
<1>2. Refused \/ NotDone \/ Failed(live, 0, FALSE) => HandsOver
  BY QuietAnswers
<1>3. ASSUME CreateAssemblyDocument PROVE HandsOver
  <2>1. CASE live' = [live EXCEPT !.assemblies = Put(@, Id(1), NoMap)]
    BY <1>1, <2>1, QuietCall DEF IsRegistries
  <2> QED BY <1>2, <1>3, <2>1 DEF CreateAssemblyDocument, createAssemblyDocument, Guarded
<1>4. ASSUME NEW a, NEW b, NEW p, AddAssemblyInstance(a, b, p) PROVE HandsOver
  <2>1. CASE live' = [live EXCEPT !.assemblies[a] = Put(@, Id(1), Len(docs[a]) + 1)]
    BY <1>1, <2>1, QuietCall DEF IsRegistries
  <2>2. CASE live' = live
    BY <2>2, QuietCall
  <2> QED BY <1>2, <1>4, <2>1, <2>2 DEF AddAssemblyInstance, addAssemblyInstance, Guarded
<1>5. ASSUME NEW a, NEW b, NEW p, NEW q, MateRig(a, b, p, q) PROVE HandsOver
  <2>1. CASE live' = live
    BY <2>1, QuietCall
  <2> QED BY <1>2, <1>5, <2>1 DEF MateRig, mateRigid, Guarded
<1>6. ASSUME NEW a, ListAssemblyTree(a) PROVE HandsOver
  BY <1>6, QuietAnswers DEF ListAssemblyTree, listAssemblyTree
<1> QED BY <1>3, <1>4, <1>5, <1>6 DEF InstanceCalls

(* A restore tells its caller what it brought back. *)
LEMMA SnapshotNames == ASSUME KernelInv, SnapshotCalls PROVE Named
<1>1. CASE CreateSnapshotCall
  <2>1. HandsOver
    BY <1>1, QuietAnswers DEF CreateSnapshotCall, CreateSnapshot
  <2> QED BY <2>1 DEF HandsOver
<1>2. ASSUME NEW t, RestoreSnapshotCall(t) PROVE Named
  <2>1. CASE ~ last'.ok
    BY <2>1 DEF Named
  <2>2. CASE t \in DOMAIN snapshots
    <3>1. live' = Restored(snapshots[t]) /\ last'.ok
      BY <1>2, <2>2 DEF RestoreSnapshotCall, RestoreSnapshot, Answer
    <3>2. Bodies(live') = Bodies(snapshots[t])
      BY <3>1 DEF Restored, Bodies
    <3>3. \A u \in DOMAIN snapshots : None \notin Bodies(snapshots[u])
      <4>1. \A u \in DOMAIN snapshots : WellFormed(snapshots[u], nextId)
        BY DEF KernelInv, RegistryConsistent
      <4>2. ~ Issued(None, nextId)
        BY DEF Issued, None
      <4> QED BY <4>1, <4>2 DEF WellFormed, Bodies
    <3>4. told' = told \cup (Bodies(snapshots[t]) \ {None})
      BY <1>2, <3>1 DEF RestoreSnapshotCall, ReturnsOnly
    <3> QED BY <2>2, <3>2, <3>3, <3>4 DEF Named
  <2> QED BY <1>2, <2>1, <2>2 DEF RestoreSnapshotCall, RestoreSnapshot, Refused, Answer
<1>3. CASE ClearSnapshotsCall
  BY <1>3 DEF ClearSnapshotsCall, ClearSnapshots, Named, Bodies
<1>4. CASE ClearStateCall
  BY <1>4 DEF ClearStateCall, ClearState, Named, Bodies, EmptyState, NoMap
<1> QED BY <1>1, <1>2, <1>3, <1>4 DEF SnapshotCalls
-----------------------------------------------------------------------------
(* Every call, and what its caller holds after it. *)
LEMMA CallHandsOver ==
    ASSUME KernelInv, [CallNext]_callVars
    PROVE  /\ \/ Undone \/ SnapshotCalls \/ UNCHANGED callVars
              \/ \E id \in Names, shape \in Shape, t \in Tokens : CenterAndAlignBody(id, shape, t)
           /\ \/ Named \/ UNCHANGED callVars
              \/ \E n \in 0 .. MaxPieces, shape \in Shape : BuildShellFromFlatPattern(n, shape)
BY CutHandsOver, TransformHandsOver, EditHandsOver, PairHandsOver, SheetHandsOver,
   QueryHandsOver, InstanceHandsOver, SnapshotNames DEF CallNext, HandsOver

(* The kernel's invariant, in every state the calls reach. *)
LEMMA CallsKernelInv == CallSpec => []KernelInv
BY CallsAreKernelSteps, SpecKernelInv

(* A call that succeeds and changes a body leaves its caller with a token  *)
(* that brings the bodies back: the rollbackToken of every result object   *)
(* of geometry_binding but that of centerAndAlignBody.                     *)
THEOREM CallsCanBeUndone == CallSpec => SuccessCanBeUndone
<1>1. ASSUME snapshots' = Snapshot, Id(0) \in told'
      PROVE  \E t \in told' : Undoes(t, live)
  BY <1>1 DEF Snapshot, Put, Undoes
<1>2. KernelInv /\ [CallNext]_callVars =>
         [\/ ~ last'.ok \/ Kept(live, live')
          \/ \E t \in told' : Undoes(t, live)
          \/ SnapshotCalls
          \/ \E id \in Names, shape \in Shape, t \in Tokens :
                 CenterAndAlignBody(id, shape, t)]_callVars
  BY <1>1, CallHandsOver DEF Undone
<1> QED BY <1>2, CallsKernelInv, PTL DEF CallSpec, SuccessCanBeUndone

(* Every body a successful call registers or restores is one its caller    *)
(* was told the id of: the ids in the result objects, but for the sheets   *)
(* that buildShellFromFlatPattern folds from.                              *)
THEOREM CallsNameNewBodies == CallSpec => NewBodiesAreNamed
<1>1. KernelInv /\ [CallNext]_callVars =>
         [\/ ~ last'.ok
          \/ (Bodies(live') \ Bodies(live)) \subseteq told'
          \/ \E n \in 0 .. MaxPieces, shape \in Shape :
                 BuildShellFromFlatPattern(n, shape)]_callVars
  BY CallHandsOver DEF Named
<1> QED BY <1>1, CallsKernelInv, PTL DEF CallSpec, NewBodiesAreNamed
=============================================================================
