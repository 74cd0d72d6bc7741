------------------------------ MODULE FoldGraph ------------------------------
(***************************************************************************)
(* The in-memory graph of one project (src/ts/src/v2/graph/store.ts) under *)
(* the tools that change its structure.  A part is a flat outline folded   *)
(* along bends; the bends are the edges of a tree over the region panels   *)
(* of the part.  Merging two parts with a bend re-roots the absorbed       *)
(* part's tree, splitting a part at a bend moves the subtree below the     *)
(* bend to a new part, deleting a bend joins two panels, fusing absorbs a  *)
(* part without bends.  A part or a panel that was absorbed stays as an    *)
(* alias.                                                                  *)
(*                                                                         *)
(* Outlines, hinges, angles and names are left out: where the geometry     *)
(* decides (is there a contact seam, does the cut cross the outline), the  *)
(* step may or may not happen.  A call the geometry refuses changes        *)
(* nothing.                                                                *)
(***************************************************************************)
EXTENDS Naturals, FiniteSets

CONSTANTS
    PartId,     \* ids of parts, in order of creation
    PanelId,    \* ids of region panels
    BendId,     \* ids of bends
    HoleId      \* ids of holes

ASSUME IdsAssumption ==
    /\ PartId \subseteq Nat \ {0}
    /\ PanelId \subseteq Nat \ {0}
    /\ BendId \subseteq Nat \ {0}
    /\ HoleId \subseteq Nat \ {0}

None == 0

VARIABLES
    parts,          \* the map partId -> part row
    regionPanels,   \* the map regionPanelId -> region panel row
    bends           \* the map bendId -> bend row

vars == <<parts, regionPanels, bends>>

PartRow == [root : PanelId, holes : SUBSET HoleId, mergedInto : PartId \cup {None}]
PanelRow == [part : PartId, mergedInto : PanelId \cup {None}]
BendRow == [part : PartId, parent : PanelId, child : PanelId]

-----------------------------------------------------------------------------
(* What the rows say.                                                      *)

LiveParts == {p \in DOMAIN parts : parts[p].mergedInto = None}
Aliased == {x \in DOMAIN regionPanels : regionPanels[x].mergedInto # None}
AllLivePanels == DOMAIN regionPanels \ Aliased
LivePanels(p) == {x \in AllLivePanels : regionPanels[x].part = p}
BendsOf(p) == {b \in DOMAIN bends : bends[b].part = p}
Holes == UNION {parts[p].holes : p \in DOMAIN parts}

(* S holds, with a panel, every panel folded directly beneath it.          *)
Closed(S, bs) == \A b \in bs : bends[b].parent \in S => bends[b].child \in S

(* The panels at or beneath x along the bends bs: the least closed set     *)
(* that holds x.                                                           *)
Below(x, bs) ==
    {y \in DOMAIN regionPanels :
        \A S \in SUBSET DOMAIN regionPanels : x \in S /\ Closed(S, bs) => y \in S}

(* Ids are fresh UUIDs: the least unused one stands for them all.          *)
NewId(i, used, ids) == i \in ids \ used /\ \A j \in ids \ used : i <= j

-----------------------------------------------------------------------------
Init ==
    /\ parts = <<>>
    /\ regionPanels = <<>>
    /\ bends = <<>>

Added(f, k, row) == [i \in DOMAIN f \cup {k} |-> IF i = k THEN row ELSE f[i]]

(* create_part (and each part of import_part, split_body_by_plane).        *)
CreatePart(p, x) ==
    /\ NewId(p, DOMAIN parts, PartId)
    /\ NewId(x, DOMAIN regionPanels, PanelId)
    /\ parts' = Added(parts, p, [root |-> x, holes |-> {}, mergedInto |-> None])
    /\ regionPanels' = Added(regionPanels, x, [part |-> p, mergedInto |-> None])
    /\ UNCHANGED bends

(* create_node and add_flange: a new panel folded off a live panel.  The   *)
(* part's own alias flag is not looked at: an alias has no live panel.     *)
LiveOn(x, p) == x \in LivePanels(p)
CreateBendNode(p, x, y, b) ==
    /\ p \in DOMAIN parts
    /\ LiveOn(x, p)
    /\ NewId(y, DOMAIN regionPanels, PanelId)
    /\ NewId(b, DOMAIN bends, BendId)
    /\ regionPanels' = Added(regionPanels, y, [part |-> p, mergedInto |-> None])
    /\ bends' = Added(bends, b, [part |-> p, parent |-> x, child |-> y])
    /\ UNCHANGED parts

(* RerootAt: the bends between the old root and y, those with y beneath    *)
(* them, are turned round.                                                 *)
Turned(b, bs, y) == y \in Below(bends[b].child, bs)
RerootAtNot(b, bs, y) == bends[b]                       \* B's tree left as it is
RerootAt(b, bs, y) ==
    IF Turned(b, bs, y)
    THEN [bends[b] EXCEPT !.parent = bends[b].child, !.child = bends[b].parent]
    ELSE bends[b]

MergedBendsNotMoved(p, q, x, y, b) ==                   \* B's bends keep B's part id
    Added([c \in DOMAIN bends |-> RerootAt(c, BendsOf(q), y)],
          b, [part |-> p, parent |-> x, child |-> y])
MergedBends(p, q, x, y, b) ==
    Added([c \in DOMAIN bends |->
              IF bends[c].part = q THEN [RerootAt(c, BendsOf(q), y) EXCEPT !.part = p]
                                   ELSE bends[c]],
          b, [part |-> p, parent |-> x, child |-> y])
MovedPanels(X, p) ==
    [x \in DOMAIN regionPanels |->
        IF x \in X THEN [regionPanels[x] EXCEPT !.part = p] ELSE regionPanels[x]]

(* persistMutation saves what a tool leaves only if the check passes, and  *)
(* puts the store back otherwise (restoreAll).  No tool compares the two   *)
(* parts it is given, so one part can be joined with itself: it would be   *)
(* its own alias, which INV_MERGE_SELF finds.                              *)
Saved(pts, pns, bds) ==
    IF \E p \in DOMAIN pts : pts[p].mergedInto = p
    THEN UNCHANGED vars
    ELSE parts' = pts /\ regionPanels' = pns /\ bends' = bds

(* merge_bodies_with_bend: q's rows move to p, joined by the new bend b    *)
(* from panel x of p to panel y of q.                                      *)
MergePartsWithBend(p, q, x, y, b) ==
    /\ p \in LiveParts /\ q \in LiveParts
    /\ LiveOn(x, p) /\ LiveOn(y, q)
    /\ NewId(b, DOMAIN bends, BendId)
    /\ Saved([parts EXCEPT ![p].holes = @ \cup parts[q].holes, ![q].mergedInto = p],
             MovedPanels({z \in DOMAIN regionPanels : regionPanels[z].part = q}, p),
             MergedBends(p, q, x, y, b))

(* fuse_bodies: q, which has no bends, becomes material of panel x of p.   *)
SimpleOrNot(q) == TRUE                                  \* the check for bends dropped
Simple(q) == BendsOf(q) = {}
FuseBodiesOnPart(p, q, x) ==                            \* the alias names the part
    /\ p \in LiveParts /\ q \in LiveParts
    /\ Simple(q)
    /\ LiveOn(x, p)
    /\ Saved([parts EXCEPT ![q].mergedInto = p],
             [regionPanels EXCEPT ![parts[q].root].mergedInto = p],
             bends)
FuseBodiesUnchecked(p, q, x) ==                              \* saved without the check
    /\ p \in LiveParts /\ q \in LiveParts
    /\ Simple(q)
    /\ LiveOn(x, p)
    /\ parts' = [parts EXCEPT ![q].mergedInto = p]
    /\ regionPanels' = [regionPanels EXCEPT ![parts[q].root].mergedInto = x]
    /\ UNCHANGED bends
FuseBodies(p, q, x) ==
    /\ p \in LiveParts /\ q \in LiveParts
    /\ Simple(q)
    /\ LiveOn(x, p)
    /\ Saved([parts EXCEPT ![q].mergedInto = p],
             [regionPanels EXCEPT ![parts[q].root].mergedInto = x],
             bends)

(* delete_node(bend): the child panel becomes an alias of the parent, and  *)
(* what hung off the child hangs off the parent.                           *)
PromotedNot(b) == [c \in DOMAIN bends \ {b} |-> bends[c]]   \* what hung off the child still does
Promoted(b) ==
    [c \in DOMAIN bends \ {b} |->
        IF bends[c].parent = bends[b].child
        THEN [bends[c] EXCEPT !.parent = bends[b].parent] ELSE bends[c]]
DeleteBendNode(b) ==
    /\ b \in DOMAIN bends
    /\ bends' = Promoted(b)
    /\ regionPanels' = [regionPanels EXCEPT ![bends[b].child].mergedInto = bends[b].parent]
    /\ UNCHANGED parts

(* split_part_at_bend: the live panels beneath bend b of part p, and the   *)
(* bends between them, move to the new part q rooted at b's child.  The    *)
(* form without a bend id repeats this until no bend is left, or restores  *)
(* the store it started from.                                              *)
SubtreeChild(p, b) == {bends[b].child}                  \* the panels further down forgotten
Subtree(p, b) == Below(bends[b].child, BendsOf(p) \ {b})
SplitPartAtBendWithHoles(p, b, q) ==                      \* both sides keep the holes
    /\ p \in LiveParts
    /\ b \in BendsOf(p)
    /\ NewId(q, DOMAIN parts, PartId)
    /\ parts' = Added(parts, q, [root |-> bends[b].child, holes |-> parts[p].holes, mergedInto |-> None])
    /\ regionPanels' = MovedPanels(Subtree(p, b), q)
    /\ bends' = [c \in DOMAIN bends \ {b} |->
                    IF bends[c].parent \in Subtree(p, b) THEN [bends[c] EXCEPT !.part = q]
                                                         ELSE bends[c]]
SplitPartAtBend(p, b, q) ==
    /\ p \in LiveParts
    /\ b \in BendsOf(p)
    /\ parts[p].holes = {}
    /\ NewId(q, DOMAIN parts, PartId)
    /\ parts' = Added(parts, q, [root |-> bends[b].child, holes |-> {}, mergedInto |-> None])
    /\ regionPanels' = MovedPanels(Subtree(p, b), q)
    /\ bends' = [c \in DOMAIN bends \ {b} |->
                    IF bends[c].parent \in Subtree(p, b) THEN [bends[c] EXCEPT !.part = q]
                                                         ELSE bends[c]]

(* cut_panel and generate_reliefs: a hole in a live panel of a live part.  *)
AddCutHole(p, x, h) ==
    /\ p \in LiveParts
    /\ LiveOn(x, p)
    /\ NewId(h, Holes, HoleId)
    /\ parts' = [parts EXCEPT ![p].holes = @ \cup {h}]
    /\ UNCHANGED <<regionPanels, bends>>

Next ==
    \/ \E p \in PartId, x \in PanelId : CreatePart(p, x)
    \/ \E p \in PartId, x, y \in PanelId, b \in BendId : CreateBendNode(p, x, y, b)
    \/ \E p, q \in PartId, x, y \in PanelId, b \in BendId : MergePartsWithBend(p, q, x, y, b)
    \/ \E p, q \in PartId, x \in PanelId : FuseBodies(p, q, x)
    \/ \E b \in BendId : DeleteBendNode(b)
    \/ \E p, q \in PartId, b \in BendId : SplitPartAtBend(p, b, q)
    \/ \E p \in PartId, x \in PanelId, h \in HoleId : AddCutHole(p, x, h)

Spec == Init /\ [][Next]_vars

-----------------------------------------------------------------------------
(* Every row has its shape: the keys of the three maps and the fields of   *)
(* their rows (src/ts/src/v2/graph/types.ts).                              *)
TypeOK ==
    /\ DOMAIN parts \subseteq PartId
    /\ \A p \in DOMAIN parts : parts[p] \in PartRow
    /\ DOMAIN regionPanels \subseteq PanelId
    /\ \A x \in DOMAIN regionPanels : regionPanels[x] \in PanelRow
    /\ DOMAIN bends \subseteq BendId
    /\ \A b \in DOMAIN bends : bends[b] \in BendRow

(* checkGraphInvariants for one live part: its root is one of its live     *)
(* panels, its bends join its live panels, the root has no incoming bend,  *)
(* every other live panel exactly one, and all are reached from the root.  *)
FoldTreeOK(p) ==
    LET root == parts[p].root
    IN  /\ root \in LivePanels(p)
        /\ \A b \in BendsOf(p) : /\ bends[b].parent \in LivePanels(p)
                                 /\ bends[b].child \in LivePanels(p) \ {root}
        /\ \A x \in LivePanels(p) \ {root} :
              \E b \in BendsOf(p) : \A c \in BendsOf(p) : bends[c].child = x <=> c = b
        /\ LivePanels(p) \subseteq Below(root, BendsOf(p))

(* Whatever sequence of tools built the graph, the check of invariants.ts   *)
(* finds nothing in what is saved, though only one clause of it is part of  *)
(* the tools above (Saved): joining a part with itself is the only call it  *)
(* ever has to refuse, and no stored project fails to open.                 *)
NoViolations ==
    /\ \A p \in LiveParts : FoldTreeOK(p)
    /\ \A p \in DOMAIN parts :
          parts[p].mergedInto # None => parts[p].mergedInto \in DOMAIN parts \ {p}
    /\ \A x \in DOMAIN regionPanels : regionPanels[x].mergedInto # x

(* Every live row belongs to a live part, so the checks above, which skip  *)
(* the aliases, leave no panel and no bend unchecked.                      *)
NothingOnAliases ==
    /\ \A x \in AllLivePanels : regionPanels[x].part \in LiveParts
    /\ \A b \in DOMAIN bends : bends[b].part \in LiveParts

(* "any existing reference to it keeps resolving" (store.ts, deleteBendNode): *)
(* following mergedInto from a part or a panel never comes round again, so *)
(* it ends at a live one.                                                  *)
EndsLive(f) ==
    \A S \in SUBSET {i \in DOMAIN f : f[i].mergedInto # None} :
        S # {} => \E i \in S : f[i].mergedInto \in DOMAIN f \ S
AliasesResolve == EndsLive(parts) /\ EndsLive(regionPanels)

(* A hole belongs to at most one live part: merging moves the holes of the *)
(* absorbed part, it does not copy them to two parts that can both be cut. *)
HolesOnce ==
    \A p, q \in LiveParts : p # q => parts[p].holes \cap parts[q].holes = {}

(* split_part_at_bend is the inverse of merge_bodies_with_bend (store.ts): *)
(* after a merge by a bend, exactly the panels of the absorbed part are on *)
(* the far side of that bend.                                              *)
SplitUndoesMerge ==
    [][\A p, q \in DOMAIN parts, b \in DOMAIN bends' \ DOMAIN bends :
          parts[q].mergedInto = None /\ parts'[q].mergedInto = p
             => Subtree(p, b)' = LivePanels(q)]_vars

(* Two live panels are on the same part exactly when bends connect them:   *)
(* the components of the fold forest are the parts.                        *)
Joined(x, y) ==
    \A S \in SUBSET AllLivePanels :
        x \in S /\ (\A b \in DOMAIN bends : bends[b].parent \in S <=> bends[b].child \in S)
           => y \in S
PartsAreComponents ==
    \A x, y \in AllLivePanels : regionPanels[x].part = regionPanels[y].part <=> Joined(x, y)

(* The stored rows, with their roots, directions and part ids, implement   *)
(* the forest of FoldForest: merging never closes a loop, re-rooting and   *)
(* moving rows between parts disconnect nothing, deleting a bend and       *)
(* fusing lose no panel that something still hangs off.                    *)
Forest == INSTANCE FoldForest WITH
    Panel <- PanelId,
    panels <- AllLivePanels,
    joints <- {{bends[b].parent, bends[b].child} : b \in DOMAIN bends}
ImplementsForest == Forest!Spec
=============================================================================
