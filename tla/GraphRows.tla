------------------------------ MODULE GraphRows ------------------------------
(***************************************************************************)
(* The rows persistMutation writes for a structural change of the graph:   *)
(* it compares the graph before and after the tool part by part, turns the *)
(* changed parts into rows of each table (row-mapper.ts, snapshotToRows)   *)
(* and writes only the rows whose primary key appeared, changed or         *)
(* vanished (diffRows).  A row is looked up by its key alone, whichever    *)
(* part it came from.                                                      *)
(*                                                                         *)
(* One session from an empty project: the parts are in the order they were *)
(* created.  The write itself succeeds (DoltSession has its failures).     *)
(***************************************************************************)
EXTENDS FoldGraph

VARIABLES
    panelRows,      \* the table region_panel: key -> row
    bendRows,       \* the table bend
    holeRows        \* the tables feature and part_ring (holes): key -> part_id

rowVars == <<vars, panelRows, bendRows, holeRows>>

(* What the keys of a changed part's rows are taken from.                  *)
OwnPanels == [p \in DOMAIN parts |-> {x \in DOMAIN regionPanels : regionPanels[x].part = p}]
OwnBends == [p \in DOMAIN parts |-> BendsOf(p)]
OwnHoles == [p \in DOMAIN parts |-> parts[p].holes]

Snapshot(p) ==
    IF p \in DOMAIN parts
    THEN <<parts[p], [x \in OwnPanels[p] |-> regionPanels[x]], [b \in OwnBends[p] |-> bends[b]]>>
    ELSE <<>>
ChangedRowOnly == {p \in DOMAIN parts' :                \* only the part's own row compared
                      p \notin DOMAIN parts \/ parts[p] # parts'[p]}
Changed == {p \in DOMAIN parts' : Snapshot(p) # Snapshot(p)'}

(* mergeRows, then the Map of diffRows: of two rows with one key, the one  *)
(* of the part that comes last stays.                                      *)
ByKey(own, C) ==
    LET has(k) == {p \in C \cap DOMAIN own : k \in own[p]}
    IN  [k \in UNION {own[p] : p \in C \cap DOMAIN own} |->
            CHOOSE p \in has(k) : \A q \in has(k) : q <= p]

(* diffRows, and the upserts and deletes applied to the table.             *)
Written(table, old, new) ==
    [k \in (DOMAIN table \cup DOMAIN new) \ (DOMAIN old \ DOMAIN new) |->
        IF k \in DOMAIN new /\ (k \notin DOMAIN old \/ new[k] # old[k])
        THEN new[k] ELSE table[k]]

Rows(owner, rows) == [k \in DOMAIN owner |-> rows[k]]

Persist ==
    \E C \in {Changed} :
        LET oldPanels == ByKey(OwnPanels, C)    newPanels == ByKey(OwnPanels', C)
            oldBends == ByKey(OwnBends, C)      newBends == ByKey(OwnBends', C)
            oldHoles == ByKey(OwnHoles, C)      newHoles == ByKey(OwnHoles', C)
        IN  /\ panelRows' = Written(panelRows, Rows(oldPanels, regionPanels), Rows(newPanels, regionPanels'))
            /\ bendRows' = Written(bendRows, Rows(oldBends, bends), Rows(newBends, bends'))
            /\ holeRows' = Written(holeRows, oldHoles, newHoles)

InitRows == Init /\ panelRows = <<>> /\ bendRows = <<>> /\ holeRows = <<>>
NextRows ==
    \/ \E p \in PartId, x \in PanelId : CreatePart(p, x) /\ Persist
    \/ \E p \in PartId, x, y \in PanelId, b \in BendId : CreateBendNode(p, x, y, b) /\ Persist
    \/ \E p, q \in PartId, x, y \in PanelId, b \in BendId :
          MergePartsWithBend(p, q, x, y, b) /\ Persist
    \/ \E p, q \in PartId, x \in PanelId : FuseBodies(p, q, x) /\ Persist
    \/ \E b \in BendId : DeleteBendNode(b) /\ Persist
    \/ \E p, q \in PartId, b \in BendId : SplitPartAtBend(p, b, q) /\ Persist
    \/ \E p \in PartId, x \in PanelId, h \in HoleId : AddCutHole(p, x, h) /\ Persist
SpecRows == InitRows /\ [][NextRows]_rowVars

-----------------------------------------------------------------------------
(* "memory and storage never disagree" (persist-mutation.ts), for panels   *)
(* and bends: the rows written part by part, of the changed parts only,    *)
(* add up to the maps in memory, whatever rows a tool moved between parts. *)
RowsAgree == panelRows = regionPanels /\ bendRows = bends

(* ... and for holes: what a reload gives a live part is what it has in    *)
(* memory.                                                                 *)
HolesAgree ==
    \A p \in LiveParts : {h \in DOMAIN holeRows : holeRows[h] = p} = parts[p].holes
=============================================================================
