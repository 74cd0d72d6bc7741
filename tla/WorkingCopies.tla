--------------------------- MODULE WorkingCopies ---------------------------
(***************************************************************************)
(* What the versioned storage of a project promises to someone who edits   *)
(* it: branches of one document, each with the revision it stands on and a *)
(* stack of the states that undo leads back to.  It knows nothing of logs, *)
(* before-images, commit marks, merge bases or the session; DoltSession is *)
(* shown to implement it.                                                  *)
(***************************************************************************)
EXTENDS Naturals

CONSTANTS
    Branch, Main,  \* branches; Main always exists and is never edited in place
    Key, Cell,     \* a document gives every key a cell
    NoRow,         \* the cell of a key that is not there
    MaxSeq         \* bound: operations over the life of the project

Document == [Key -> Cell]
Blank    == [k \in Key |-> NoRow]
NoPast   == [s \in {} |-> Blank]

VARIABLES
    open,      \* the branches that exist
    doc,       \* doc[b]: the document as edited on b
    past,      \* past[b]: operation -> the document it started from
    saved,     \* saved[b]: the document at the revision b stands on
    revisions  \* documents that some revision holds

copies == <<open, doc, past, saved, revisions>>

Init ==
    /\ open = {Main}
    /\ doc = [b \in Branch |-> Blank]
    /\ past = [b \in Branch |-> NoPast]
    /\ saved = [b \in Branch |-> Blank]
    /\ revisions = {Blank}

Newer(b, s) == \A t \in DOMAIN past[b] : t < s

\* An operation takes the document from one state to any other.
Change(b, s, d) ==
    /\ b \in open \ {Main} /\ Newer(b, s)
    /\ doc' = [doc EXCEPT ![b] = d]
    /\ past' = [past EXCEPT ![b] = [t \in DOMAIN past[b] \cup {s} |->
                                       IF t = s THEN doc[b] ELSE past[b][t]]]
    /\ UNCHANGED <<open, saved, revisions>>

\* Undo returns to the document the newest operation started from.
TakeBack(b, s) ==
    /\ b \in open \ {Main}
    /\ s \in DOMAIN past[b] /\ \A t \in DOMAIN past[b] : t <= s
    /\ doc' = [doc EXCEPT ![b] = past[b][s]]
    /\ past' = [past EXCEPT ![b] = [t \in DOMAIN past[b] \ {s} |-> past[b][t]]]
    /\ UNCHANGED <<open, saved, revisions>>

Save(b) ==
    /\ b \in open \ {Main}
    /\ past' = [past EXCEPT ![b] = NoPast]
    /\ saved' = [saved EXCEPT ![b] = doc[b]]
    /\ revisions' = revisions \cup {doc[b]}
    /\ UNCHANGED <<open, doc>>

Revert(b) ==
    /\ b \in open \ {Main}
    /\ doc' = [doc EXCEPT ![b] = saved[b]]
    /\ past' = [past EXCEPT ![b] = NoPast]
    /\ UNCHANGED <<open, saved, revisions>>

\* A branch of its own at some revision; the branches it replaces have nothing
\* left to undo.
Begin(l, d) ==
    /\ l \in Branch \ open /\ d \in revisions
    /\ \A b \in open : past[b] = NoPast
    /\ open' = {Main, l}
    /\ doc' = [b \in Branch |-> CASE b = l -> d [] b = Main -> doc[b] [] OTHER -> Blank]
    /\ saved' = [b \in Branch |-> CASE b = l -> d [] b = Main -> saved[b] [] OTHER -> Blank]
    /\ past' = [b \in Branch |-> NoPast]
    /\ UNCHANGED revisions

\* A saved branch lands on Main: every cell of the result is Main's or the
\* branch's, and the branch is gone.
Land(b, d) ==
    /\ b \in open \ {Main} /\ past[b] = NoPast
    /\ d \in Document /\ \A k \in Key : d[k] \in {doc[Main][k], doc[b][k]}
    /\ open' = open \ {b}
    /\ doc' = [doc EXCEPT ![b] = Blank, ![Main] = d]
    /\ saved' = [saved EXCEPT ![b] = Blank, ![Main] = d]
    /\ revisions' = revisions \cup {d}
    /\ UNCHANGED past

\* Work is given up only on request, and then on every branch at once.
Drop ==
    /\ open' = {Main}
    /\ doc' = [b \in Branch |-> IF b = Main THEN doc[b] ELSE Blank]
    /\ saved' = [b \in Branch |-> IF b = Main THEN saved[b] ELSE Blank]
    /\ past' = [b \in Branch |-> NoPast]
    /\ UNCHANGED revisions

Next ==
    \/ \E b \in Branch, s \in 1..MaxSeq, d \in Document : Change(b, s, d)
    \/ \E b \in Branch, s \in 1..MaxSeq : TakeBack(b, s)
    \/ \E b \in Branch : Save(b)
    \/ \E b \in Branch : Revert(b)
    \/ \E l \in Branch, d \in Document : Begin(l, d)
    \/ \E b \in Branch, d \in Document : Land(b, d)
    \/ Drop

Spec == Init /\ [][Next]_copies
=============================================================================
