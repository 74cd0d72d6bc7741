----------------------------- MODULE FoldForest ------------------------------
(***************************************************************************)
(* What the graph tools promise about the folded sheets of a project,      *)
(* whichever way round the bends are stored: the live panels and the       *)
(* joints between them are a forest.  A joint is made only between panels  *)
(* that were not yet connected, and a panel disappears only into a         *)
(* neighbour or when nothing hangs off it.                                 *)
(***************************************************************************)
EXTENDS FiniteSets

CONSTANTS Panel             \* every panel there can be

VARIABLES
    panels,                 \* the live panels
    joints                  \* the pairs of panels joined by a bend

vars == <<panels, joints>>

(* Every set that holds x and, with a panel, all it is joined to, holds y. *)
Connected(x, y) ==
    \A S \in SUBSET panels :
        x \in S /\ (\A j \in joints : j \subseteq S \/ j \cap S = {}) => y \in S

Init == panels = {} /\ joints = {}

(* A new sheet.                                                            *)
Lay(x) ==
    /\ panels' = panels \cup {x}
    /\ x \notin panels
    /\ UNCHANGED joints

(* A new panel folded off x.                                               *)
Fold(x, y) ==
    /\ x \in panels /\ y \notin panels
    /\ panels' = panels \cup {y}
    /\ joints' = joints \cup {{x, y}}

(* Two sheets become one.                                                  *)
Join(x, y) ==
    /\ x \in panels /\ y \in panels
    /\ ~Connected(x, y)
    /\ joints' = joints \cup {{x, y}}
    /\ UNCHANGED panels

(* One sheet becomes two.                                                  *)
Cut(j) ==
    /\ j \in joints
    /\ joints' = joints \ {j}
    /\ UNCHANGED panels

(* The joint between x and y is flattened: y is part of x from now on.     *)
Moved(j, x, y) == IF y \in j THEN (j \ {y}) \cup {x} ELSE j
Flatten(x, y) ==
    /\ x # y
    /\ {x, y} \in joints
    /\ panels' = panels \ {y}
    /\ joints' = {Moved(j, x, y) : j \in joints \ {{x, y}}}

(* A sheet of one panel becomes material of another sheet.                 *)
Absorb(y) ==
    /\ y \in panels
    /\ \A j \in joints : y \notin j
    /\ panels' = panels \ {y}
    /\ UNCHANGED joints

Next ==
    \/ \E x \in Panel : Lay(x)
    \/ \E x, y \in Panel : Fold(x, y) \/ Join(x, y) \/ Flatten(x, y)
    \/ \E j \in joints : Cut(j)
    \/ \E y \in Panel : Absorb(y)

Spec == Init /\ [][Next]_vars
=============================================================================
