-------------------------- MODULE KernelAssemblies --------------------------
(***************************************************************************)
(* The assembly operations of the geometry kernel                          *)
(* (geometry_service_assembly).  The registry keeps, for every assembly, a *)
(* handle to an OCAF document and the ids of its components; the document  *)
(* keeps the components themselves: a body as it was when added, and its   *)
(* pose.  A snapshot copies the registry and not the document.             *)
(*                                                                         *)
(* Positions on a circle stand for the rigid motions of space.             *)
(***************************************************************************)
EXTENDS KernelBodies

Turn == MaxTurn + 1

\* The change of coordinates from one system to another.  It is not the
\* displacement that takes the one to the other: that is its inverse.
SetTransformation(from, to) == (from + Turn - to) % Turn

Component(body, shape, pose) == [body |-> body, shape |-> shape, pose |-> pose]

Assemblies == DOMAIN live.assemblies

createAssemblyDocument ==
    \/ NotDone
    \/ /\ DOMAIN docs \cap {Id(1)} = {}
       /\ Guarded([live EXCEPT !.assemblies = Put(@, Id(1), NoMap)], 1,
                  Answer(TRUE, FALSE, None))
       /\ docs' = Put(docs, Id(1), <<>>)

\* Mutant: the component is registered before the document has it.
addAssemblyInstanceRegisteredFirst(a, target, pose) ==
    IF a \notin Assemblies \/ target \notin Parts THEN Refused ELSE
    LET added == [docs EXCEPT ![a] =
                    Append(@, Component(target, ShapeOf(live, target), pose))]
        named == [live EXCEPT !.assemblies[a] = Put(@, Id(1), Len(docs[a]) + 1)]
    IN  \/ Guarded(named, 1, Answer(FALSE, TRUE, None)) /\ UNCHANGED docs
        \/ Guarded(named, 1, Answer(TRUE, FALSE, None)) /\ docs' = added

\* The document may have the component already when the call fails.
addAssemblyInstance(a, target, pose) ==
    IF a \notin Assemblies \/ target \notin Parts THEN Refused ELSE
    LET added == [docs EXCEPT ![a] =
                    Append(@, Component(target, ShapeOf(live, target), pose))]
    IN  \/ NotDone
        \/ Guarded(live, 0, Answer(FALSE, TRUE, None)) /\ docs' = added
        \/ /\ Guarded([live EXCEPT !.assemblies[a] =
                          Put(@, Id(1), Len(docs[a]) + 1)], 1,
                      Answer(TRUE, FALSE, None))
           /\ docs' = added

\* The component is found by the present shape of the body the face is on.
Mated(a, body) ==
    {i \in DOMAIN docs[a] :
        /\ docs[a][i].body = body /\ docs[a][i].shape = ShapeOf(live, body)
        /\ \E c \in DOMAIN live.assemblies[a] : live.assemblies[a][c] = i}

\* src and dst are where the planes of the two faces lie on their bodies;
\* where the components are put in the assembly is not asked.  The document
\* may have the new pose already when the call fails.
mateRigid(a, body, src, dst) ==
    IF a \notin Assemblies \/ body \notin Parts THEN Refused ELSE
    \/ Refused                                                \* not planar faces
    \/ NotDone
    \/ Mated(a, body) = {} /\ Failed(live, 0, FALSE)
    \/ \E i \in Mated(a, body) :
           /\ \/ Guarded(live, 0, Answer(TRUE, FALSE, Id(0)))
              \/ Guarded(live, 0, Answer(FALSE, TRUE, None))
           /\ docs' = [docs EXCEPT ![a][i].pose =
                          (SetTransformation(src, dst) + @) % Turn]

listAssemblyTree(a) == Query({a}, Assemblies)
=============================================================================
