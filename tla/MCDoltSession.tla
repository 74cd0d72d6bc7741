--------------------------- MODULE MCDoltSession ---------------------------
(* Small instances of DoltSession for TLC. *)
EXTENDS DoltSession, TLC

\* The labels of working branches are interchangeable.
Symmetry == Permutations(Label)

\* Bound of DoltFaults.cfg: sequences with two operations on one branch between
\* two commits are not continued.
OneUncommitted == \A b \in Branch : Exists(b) => Cardinality(Uncommitted(working[b])) <= 1
=============================================================================
