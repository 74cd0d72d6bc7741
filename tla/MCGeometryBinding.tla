-------------------------- MODULE MCGeometryBinding --------------------------
(***************************************************************************)
(* The instance of GeometryBinding that is checked: the operations treat   *)
(* shapes alike, so states that differ by a renaming of them are one.      *)
(***************************************************************************)
EXTENDS GeometryBinding, TLC

Symmetry == Permutations(Shape)
=============================================================================
