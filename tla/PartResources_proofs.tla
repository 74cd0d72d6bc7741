------------------------ MODULE PartResources_proofs ------------------------
(***************************************************************************)
(* Theorems about the calls and the resources, for any parts, versions and *)
(* bounds.                                                                 *)
(***************************************************************************)
EXTENDS PartResources, TLAPS

Stage == {"idle", "ran"} \cup Await
RowSet == UNION {[P -> Version \cup {Absent}] : P \in SUBSET Part}
Local == [at : Stage, before : Graph, rows : RowSet]

CallTypes ==
    /\ mem \in Graph /\ disk \in Graph
    /\ txn \in Graph \cup {NoTxn}
    /\ calls \in [Call -> Local]

\* What is left to write, written over g, gives the memory.
Completes(g, rows) ==
    \A p \in Part : IF p \in DOMAIN rows THEN rows[p] = mem[p] ELSE g[p] = mem[p]

\* Where a call stands says what the rows, the transaction and memory are to
\* each other, when no other call can come in between.
Phase(c) ==
    LET at == calls[c].at IN
    /\ at \in {"settingsUse", "settings"} => mem = disk
    /\ at # "idle" => calls[c].before = disk
    /\ at \notin {"write", "commit", "rollback"} => txn = NoTxn
    /\ at \in {"use", "begin"} => Completes(disk, calls[c].rows)
    /\ at \in {"write", "commit"} => txn \in Graph /\ Completes(txn, calls[c].rows)
    /\ at = "commit" => DOMAIN calls[c].rows = {}

CallInv ==
    /\ CallTypes
    /\ MemoryIsStored
    /\ \A c \in Call : Phase(c)

-----------------------------------------------------------------------------
(* What the helpers do to the locals of the one call. *)

LEMMA DoneIsLocal == Done \in Local
<1>1. EmptyGraph \in Graph
  BY DEF EmptyGraph, Graph
<1>2. [p \in {} |-> Absent] \in [{} -> Version \cup {Absent}]
  OBVIOUS
<1>3. [p \in {} |-> Absent] \in RowSet
  BY <1>2 DEF RowSet
<1> QED BY <1>1, <1>3 DEF Done, Local, Stage

LEMMA AnsweredLocals ==
  ASSUME CallTypes, NEW c \in Call, NEW at, NEW next \in Stage, Answered(c, at, next)
  PROVE  /\ calls' \in [Call -> Local]
         /\ calls[c].at = at /\ calls'[c].at = next
         /\ calls'[c].before = calls[c].before
         /\ calls'[c].rows = calls[c].rows
BY DEF CallTypes, Answered, Turn, Local

LEMMA FinishedLocals ==
  ASSUME CallTypes, NEW c \in Call, NEW at, Finished(c, at)
  PROVE  calls' \in [Call -> Local] /\ calls[c].at = at /\ calls'[c] = Done
BY DoneIsLocal DEF CallTypes, Finished, Turn

LEMMA LocalFields ==
  ASSUME CallTypes, NEW c \in Call
  PROVE  /\ calls[c].at \in Stage /\ calls[c].before \in Graph /\ calls[c].rows \in RowSet
BY DEF CallTypes, Local

(* With one call, the invariant after a step is what that call says of it. *)
LEMMA OneCall ==
  ASSUME \A d, e \in Call : d = e, NEW c \in Call, CallTypes', Phase(c)',
         calls'[c].at = "idle" => mem' = disk' /\ txn' = NoTxn
  PROVE  CallInv'
<1>1. MemoryIsStored'
  BY DEF MemoryIsStored, Quiet, Idle
<1>2. \A d \in Call : Phase(d)'
  <2> TAKE d \in Call
  <2>1. d = c
    OBVIOUS
  <2> QED BY <2>1
<1> QED BY <1>1, <1>2 DEF CallInv

(* A call that ends well or badly leaves what is stored in memory. *)
LEMMA EndsStored ==
  ASSUME \A d, e \in Call : d = e, NEW c \in Call,
         calls' \in [Call -> Local], calls'[c] = Done,
         disk' \in Graph, mem' = disk', txn' = NoTxn
  PROVE  CallInv'
<1>1. CallTypes'
  BY DEF CallTypes
<1>2. calls'[c].at = "idle"
  BY DEF Done
<1>3. Phase(c)'
  BY <1>2 DEF Phase
<1> QED BY <1>1, <1>2, <1>3, OneCall

-----------------------------------------------------------------------------
(* One lemma for the steps that only move a call on, one for the rest. *)

(* A statement answered without an effect on rows or memory, or the        *)
(* failure of one in the transaction.                                      *)
LEMMA MovesOn ==
  ASSUME CallInv, NEW c \in Call, \A d, e \in Call : d = e,
         SettingsUsed(c) \/ BranchUsed(c) \/ FailInside(c)
  PROVE  CallInv'
<1> USE DEF CallInv
<1>1. CASE SettingsUsed(c)
  <2>1. "settings" \in Stage
    BY DEF Stage, Await
  <2>2. Answered(c, "settingsUse", "settings") /\ UNCHANGED <<mem, disk, txn>>
    BY <1>1 DEF SettingsUsed
  <2>3. CallTypes' /\ Phase(c)' /\ calls'[c].at # "idle"
    BY <2>1, <2>2, AnsweredLocals DEF CallTypes, Phase
  <2> QED BY <2>3, OneCall
<1>2. CASE BranchUsed(c)
  <2>1. "begin" \in Stage
    BY DEF Stage, Await
  <2>2. Answered(c, "use", "begin") /\ UNCHANGED <<mem, disk, txn>>
    BY <1>2 DEF BranchUsed
  <2>3. CallTypes' /\ Phase(c)' /\ calls'[c].at # "idle"
    BY <2>1, <2>2, AnsweredLocals DEF CallTypes, Phase, Completes
  <2> QED BY <2>3, OneCall
<1>3. CASE FailInside(c)
  <2>1. "rollback" \in Stage
    BY DEF Stage, Await
  <2>2. PICK at \in {"write", "commit"} : Answered(c, at, "rollback")
    BY <1>3 DEF FailInside
  <2>3. UNCHANGED <<mem, disk, txn>>
    BY <1>3 DEF FailInside
  <2>4. CallTypes' /\ Phase(c)' /\ calls'[c].at # "idle"
    BY <2>1, <2>2, <2>3, AnsweredLocals DEF CallTypes, Phase
  <2> QED BY <2>4, OneCall
<1> QED BY <1>1, <1>2, <1>3

(* The tool: the photograph is the stored graph, for no other call has     *)
(* changed anything.                                                       *)
LEMMA ToolRuns ==
  ASSUME CallInv, NEW c \in Call, \A d, e \in Call : d = e,
         RunTool(c) \/ StartImport(c) \/ ImportPart(c)
  PROVE  CallInv'
<1> USE DEF CallInv
<1>1. Idle(c) => mem = disk /\ txn = NoTxn
  BY DEF MemoryIsStored, Quiet, Idle
<1>2. CASE RunTool(c)
  <2>1. Idle(c) /\ mem' \in Graph /\ UNCHANGED <<disk, txn>>
        /\ calls' = [calls EXCEPT ![c].at = "ran", ![c].before = mem]
    BY <1>2 DEF RunTool
  <2>2. calls' \in [Call -> Local] /\ calls'[c].at = "ran" /\ calls'[c].before = mem
    BY <2>1 DEF CallTypes, Local, Stage
  <2>3. CallTypes' /\ Phase(c)'
    BY <1>1, <2>1, <2>2 DEF CallTypes, Phase
  <2> QED BY <2>2, <2>3, OneCall
<1>3. CASE StartImport(c)
  <2>1. Idle(c) /\ UNCHANGED <<mem, disk, txn>>
        /\ calls' = [calls EXCEPT ![c].at = "settingsUse", ![c].before = mem]
    BY <1>3 DEF StartImport
  <2>2. calls' \in [Call -> Local] /\ calls'[c].at = "settingsUse" /\ calls'[c].before = mem
    BY <2>1 DEF CallTypes, Local, Stage, Await
  <2>3. CallTypes' /\ Phase(c)'
    BY <1>1, <2>1, <2>2 DEF CallTypes, Phase
  <2> QED BY <2>2, <2>3, OneCall
<1>4. CASE ImportPart(c)
  <2>1. Answered(c, "settings", "ran") /\ UNCHANGED <<disk, txn>>
    BY <1>4 DEF ImportPart
  <2>2. PICK p \in Part, v \in Version : mem' = Written(mem, p, v)
    BY <1>4 DEF ImportPart
  <2>3. mem' \in Graph
    BY <2>2 DEF Written, Graph, CallTypes
  <2>4. "ran" \in Stage
    BY DEF Stage
  <2>5. CallTypes' /\ Phase(c)' /\ calls'[c].at = "ran"
    BY <2>1, <2>3, <2>4, AnsweredLocals DEF CallTypes, Phase
  <2> QED BY <2>5, OneCall
<1> QED BY <1>2, <1>3, <1>4

(* What persistMutation does with what the tool left.                      *)
LEMMA ToolSaved ==
  ASSUME CallInv, NEW c \in Call, \A d, e \in Call : d = e,
         NothingToSave(c) \/ SaveChanges(c) \/ Refuse(c)
  PROVE  CallInv'
<1> USE DEF CallInv
<1>1. calls[c].at = "ran" /\ calls[c].before = disk /\ txn = NoTxn /\ UNCHANGED <<disk, txn>>
  BY DEF Phase, NothingToSave, SaveChanges, Refuse
<1>2. calls' = [calls EXCEPT ![c] = Done] =>
        calls' \in [Call -> Local] /\ calls'[c] = Done
  BY DoneIsLocal DEF CallTypes
<1>3. CASE NothingToSave(c)
  <2>1. \A p \in Part : mem[p] = disk[p]
    BY <1>1, <1>3 DEF NothingToSave, ChangedParts
  <2>2. mem' = mem /\ mem = disk
    BY <1>3, <2>1 DEF NothingToSave, CallTypes, Graph
  <2>3. disk' \in Graph /\ mem' = disk' /\ txn' = NoTxn
    BY <1>1, <2>2 DEF CallTypes
  <2> QED BY <1>2, <1>3, <2>3, EndsStored DEF NothingToSave
<1>4. CASE Refuse(c)
  <2>1. disk' \in Graph /\ mem' = disk' /\ txn' = NoTxn
    BY <1>1, <1>4 DEF Refuse, Restored, CallTypes
  <2> QED BY <1>2, <1>4, <2>1, EndsStored DEF Refuse
<1>5. CASE SaveChanges(c)
  <2> DEFINE rows == [p \in ChangedParts(c) |-> mem[p]]
  <2>1. mem' = mem /\ calls' = [calls EXCEPT ![c].at = "use", ![c].rows = rows]
    BY <1>5 DEF SaveChanges
  <2>2. ChangedParts(c) \in SUBSET Part
    BY DEF ChangedParts
  <2>3. rows \in [ChangedParts(c) -> Version \cup {Absent}]
    BY <2>2 DEF CallTypes, Graph
  <2>4. rows \in RowSet
    BY <2>2, <2>3 DEF RowSet
  <2>5. calls' \in [Call -> Local] /\ calls'[c].at = "use" /\ calls'[c].rows = rows
        /\ calls'[c].before = calls[c].before
    BY <2>1, <2>4 DEF CallTypes, Local, Stage, Await
  <2>6. Completes(disk, rows)
    BY <1>1 DEF Completes, ChangedParts
  <2>7. Phase(c)'
    BY <1>1, <2>1, <2>5, <2>6 DEF Phase, Completes
  <2>8. CallTypes'
    BY <1>1, <2>1, <2>5 DEF CallTypes
  <2> QED BY <2>5, <2>7, <2>8, OneCall
<1> QED BY <1>3, <1>4, <1>5

-----------------------------------------------------------------------------
(* The transaction. *)

LEMMA WrittenGraph ==
  ASSUME NEW g \in Graph, NEW p \in Part, NEW v \in Version \cup {Absent}
  PROVE  /\ Written(g, p, v) \in Graph
         /\ Written(g, p, v)[p] = v
         /\ \A q \in Part : q # p => Written(g, p, v)[q] = g[q]
BY DEF Written, Graph

(* START TRANSACTION of the only call: the rows it sees are the stored.    *)
LEMMA Begins ==
  ASSUME CallInv, NEW c \in Call, \A d, e \in Call : d = e, Begin(c)
  PROVE  CallInv'
<1> USE DEF CallInv
<1>1. Answered(c, "begin", "write") /\ mem' = mem
  BY DEF Begin
<1>2. "write" \in Stage
  BY DEF Stage, Await
<1>3. calls[c].at = "begin"
  BY <1>1, <1>2, AnsweredLocals
<1>4. txn = NoTxn /\ calls[c].before = disk /\ Completes(disk, calls[c].rows)
  BY <1>3 DEF Phase
<1>5. disk' = disk /\ txn' = disk
  BY <1>4 DEF Begin
<1>6. CallTypes'
  BY <1>1, <1>2, <1>5, AnsweredLocals DEF CallTypes
<1>7. /\ calls'[c].at = "write" /\ calls'[c].before = calls[c].before
      /\ calls'[c].rows = calls[c].rows
  BY <1>1, <1>2, AnsweredLocals
<1>8. Phase(c)'
  BY <1>1, <1>4, <1>5, <1>7 DEF Phase, Completes, CallTypes
<1> QED BY <1>6, <1>7, <1>8, OneCall

(* Each row written brings the transaction closer to the memory.           *)
LEMMA Writes ==
  ASSUME CallInv, NEW c \in Call, \A d, e \in Call : d = e, WriteRow(c)
  PROVE  CallInv'
<1> USE DEF CallInv
<1>1. calls[c].at = "write" /\ mem' = mem
  BY DEF WriteRow, Turn
<1>2. calls[c].before = disk /\ txn \in Graph /\ Completes(txn, calls[c].rows)
  BY <1>1 DEF Phase
<1>3. txn # NoTxn
  BY <1>2, NoTxnNotGraph DEF Graph
<1>4. PICK P \in SUBSET Part : calls[c].rows \in [P -> Version \cup {Absent}]
  BY LocalFields DEF RowSet
<1>5. PICK p \in DOMAIN calls[c].rows :
        /\ calls' = [calls EXCEPT
              ![c].rows = [q \in DOMAIN calls[c].rows \ {p} |-> @[q]],
              ![c].at = IF DOMAIN calls[c].rows \ {p} = {} THEN "commit" ELSE "write"]
        /\ txn' = Written(txn, p, calls[c].rows[p]) /\ UNCHANGED disk
  BY <1>3 DEF WriteRow
<1>6. DOMAIN calls[c].rows = P /\ p \in Part /\ calls[c].rows[p] \in Version \cup {Absent}
  BY <1>4, <1>5
<1>7. /\ txn' \in Graph /\ txn'[p] = calls[c].rows[p]
      /\ \A q \in Part : q # p => txn'[q] = txn[q]
  BY <1>2, <1>5, <1>6, WrittenGraph
<1> DEFINE left == [q \in P \ {p} |-> calls[c].rows[q]]
<1>8. left \in RowSet
  <2>1. left \in [P \ {p} -> Version \cup {Absent}] /\ P \ {p} \in SUBSET Part
    BY <1>4
  <2> QED BY <2>1 DEF RowSet
<1>9. /\ calls' \in [Call -> Local]
      /\ calls'[c].at = IF P \ {p} = {} THEN "commit" ELSE "write"
      /\ calls'[c].rows = left /\ calls'[c].before = calls[c].before
  BY <1>5, <1>6, <1>8, ZenonT(60) DEF CallTypes, Local, Stage, Await
<1>10. CallTypes'
  BY <1>1, <1>5, <1>7, <1>9 DEF CallTypes
<1>11. \A q \in Part : IF q \in P \ {p} THEN left[q] = mem[q] ELSE txn'[q] = mem[q]
  BY <1>2, <1>6, <1>7 DEF Completes
<1>12. Completes(txn, calls[c].rows)'
  BY <1>1, <1>9, <1>11 DEF Completes
<1>13. DOMAIN left = P \ {p}
  OBVIOUS
<1>14. Phase(c)'
  BY <1>2, <1>5, <1>7, <1>9, <1>12, <1>13 DEF Phase
<1> QED BY <1>9, <1>10, <1>14, OneCall

(* The ends: the transaction is the memory, or memory goes back to what is *)
(* stored.                                                                 *)
LEMMA Ends ==
  ASSUME CallInv, NEW c \in Call, \A d, e \in Call : d = e,
         Commit(c) \/ FailOutside(c) \/ Rollback(c)
  PROVE  CallInv'
<1> USE DEF CallInv
<1>1. CASE Commit(c)
  <2>1. Finished(c, "commit") /\ mem' = mem /\ txn' = NoTxn
    BY <1>1 DEF Commit
  <2>2. calls[c].at = "commit"
    BY <2>1, FinishedLocals
  <2>3. txn \in Graph /\ Completes(txn, calls[c].rows) /\ DOMAIN calls[c].rows = {}
    BY <2>2 DEF Phase
  <2>4. txn = mem
    BY <2>3 DEF Completes, CallTypes, Graph
  <2>5. disk' = txn
    BY <1>1, <2>3, NoTxnNotGraph DEF Commit, Graph
  <2>6. disk' \in Graph /\ mem' = disk'
    BY <2>1, <2>3, <2>4, <2>5
  <2> QED BY <2>1, <2>6, FinishedLocals, EndsStored
<1>2. CASE FailOutside(c)
  <2>1. PICK at \in {"settingsUse", "settings", "use", "begin"} : Finished(c, at)
    BY <1>2 DEF FailOutside
  <2>2. calls[c].at = at
    BY <2>1, FinishedLocals
  <2>3. calls[c].before = disk /\ txn = NoTxn
    BY <2>2 DEF Phase
  <2>4. disk' \in Graph /\ mem' = disk' /\ txn' = NoTxn
    BY <1>2, <2>3 DEF FailOutside, Restored, CallTypes
  <2> QED BY <2>1, <2>4, FinishedLocals, EndsStored
<1>3. CASE Rollback(c)
  <2>1. Finished(c, "rollback") /\ mem' = calls[c].before /\ txn' = NoTxn /\ disk' = disk
    BY <1>3 DEF Rollback, Restored
  <2>2. calls[c].at = "rollback"
    BY <2>1, FinishedLocals
  <2>3. disk' \in Graph /\ mem' = disk'
    BY <2>1, <2>2 DEF Phase, CallTypes
  <2> QED BY <2>1, <2>3, FinishedLocals, EndsStored
<1> QED BY <1>1, <1>2, <1>3

-----------------------------------------------------------------------------
(* What resources and the client do leaves the calls alone. *)
LEMMA Unmoved ==
  ASSUME CallInv, UNCHANGED <<mem, disk, txn, calls>>
  PROVE  CallInv'
<1>1. CallTypes'
  BY DEF CallInv, CallTypes
<1>2. MemoryIsStored'
  BY DEF CallInv, MemoryIsStored, Quiet, Idle
<1>3. \A c \in Call : Phase(c)'
  BY DEF CallInv, Phase, Completes
<1> QED BY <1>1, <1>2, <1>3 DEF CallInv

LEMMA StepMoves ==
  ASSUME [Next]_vars
  PROVE  (\E c \in Call : CallStep(c)) \/ UNCHANGED <<mem, disk, txn, calls>>
<1>1. CASE CallsNext /\ UNCHANGED clientVars
  BY <1>1 DEF CallsNext
<1>2. CASE DriftCheck
  BY <1>2 DEF DriftCheck
<1>3. ASSUME NEW p \in Part, PartStep(p)
      PROVE  UNCHANGED <<mem, disk, txn, calls>>
  BY <1>3 DEF PartStep, Subscribe, Unsubscribe, Read, Expire, Fetch, FetchMissing, callVars
<1>4. CASE UNCHANGED vars
  BY <1>4 DEF vars
<1> QED BY <1>1, <1>2, <1>3, <1>4 DEF Next

LEMMA CallInvHolds ==
  ASSUME \A d, e \in Call : d = e
  PROVE  Spec => []CallInv
<1>1. Init => CallInv
  <2> SUFFICES ASSUME Init PROVE CallInv
    OBVIOUS
  <2>1. EmptyGraph \in Graph
    BY DEF EmptyGraph, Graph
  <2>2. mem = EmptyGraph /\ disk = EmptyGraph /\ txn = NoTxn /\ calls = [c \in Call |-> Done]
    BY DEF Init, CallsInit
  <2>3. CallTypes
    BY <2>1, <2>2, DoneIsLocal DEF CallTypes
  <2>4. MemoryIsStored
    BY <2>2 DEF MemoryIsStored
  <2>5. \A c \in Call : Phase(c)
    BY <2>2 DEF Phase, Done
  <2> QED BY <2>3, <2>4, <2>5 DEF CallInv
<1>2. CallInv /\ [Next]_vars => CallInv'
  <2> SUFFICES ASSUME CallInv, [Next]_vars PROVE CallInv'
    OBVIOUS
  <2>1. CASE UNCHANGED <<mem, disk, txn, calls>>
    BY <2>1, Unmoved
  <2>2. ASSUME NEW c \in Call, CallStep(c) PROVE CallInv'
    BY <2>2, MovesOn, ToolRuns, ToolSaved, Begins, Writes, Ends DEF CallStep
  <2> QED BY <2>1, <2>2, StepMoves
<1> QED BY <1>1, <1>2, PTL DEF Spec

(* One call at a time, memory is what is stored whenever none is under     *)
(* way, whichever statement failed and whatever checks, reads and expiries *)
(* came in between (persistMutation, inTransaction).                       *)
THEOREM MemoryIsAlwaysStored ==
  ASSUME \A d, e \in Call : d = e
  PROVE  Spec => []MemoryIsStored
<1>1. CallInv => MemoryIsStored
  BY DEF CallInv
<1> QED BY <1>1, CallInvHolds, PTL

-----------------------------------------------------------------------------
(* Notifications: no assumption on the calls is needed. *)

BlobTypes == blobs \in [Part -> Version \cup {NoBlob}] /\ held \in [Part -> Version \cup {NoBlob}]

LEMMA RebuiltBlobs ==
  ASSUME BlobTypes, NEW P \in SUBSET Part, \A p \in P : Buildable(p), Rebuilt(P)
  PROVE  /\ blobs' \in [Part -> Version \cup {NoBlob}]
         /\ \A p \in Part \ P : blobs'[p] = blobs[p]
BY DEF BlobTypes, Rebuilt, Buildable

LEMMA PartStepTells ==
  ASSUME BlobTypes, UpdatesAreTold, NEW p \in Part, PartStep(p)
  PROVE  (BlobTypes /\ UpdatesAreTold)'
<1>1. CASE Subscribe(p) \/ Unsubscribe(p)
  BY <1>1 DEF Subscribe, Unsubscribe, BlobTypes, UpdatesAreTold
<1>2. CASE Read(p)
  <2>1. Buildable(p) /\ Rebuilt({p}) /\ told' = told \cup {p} /\ held' = held
    BY <1>2 DEF Read
  <2>2. blobs' \in [Part -> Version \cup {NoBlob}] /\ \A q \in Part \ {p} : blobs'[q] = blobs[q]
    BY <2>1, RebuiltBlobs
  <2> QED BY <2>1, <2>2 DEF BlobTypes, UpdatesAreTold
<1>3. CASE Expire(p)
  <2>1. blobs' = [blobs EXCEPT ![p] = NoBlob] /\ told' = told /\ held' = held
    BY <1>3 DEF Expire
  <2> QED BY <2>1 DEF BlobTypes, UpdatesAreTold
<1>4. CASE Fetch(p)
  <2>1. held' = [held EXCEPT ![p] = blobs[p]] /\ told' = told \ {p} /\ blobs' = blobs
    BY <1>4 DEF Fetch
  <2> QED BY <2>1 DEF BlobTypes, UpdatesAreTold
<1>5. CASE FetchMissing(p) /\ Buildable(p)
  <2>1. p \in told /\ Rebuilt({p}) /\ told' = told /\ held' = held
    BY <1>5 DEF FetchMissing
  <2>2. blobs' \in [Part -> Version \cup {NoBlob}] /\ \A q \in Part \ {p} : blobs'[q] = blobs[q]
    BY <1>5, <2>1, RebuiltBlobs
  <2> QED BY <2>1, <2>2 DEF BlobTypes, UpdatesAreTold
<1>6. CASE FetchMissing(p) /\ ~ Buildable(p)
  <2>1. blobs[p] = NoBlob /\ blobs' = blobs /\ told' = told \ {p} /\ held' = held
    BY <1>6 DEF FetchMissing
  <2> QED BY <2>1 DEF BlobTypes, UpdatesAreTold
<1> QED BY <1>1, <1>2, <1>3, <1>4, <1>5, <1>6 DEF PartStep

LEMMA CheckTells ==
  ASSUME BlobTypes, UpdatesAreTold, subscribed \subseteq Part, DriftCheck
  PROVE  (BlobTypes /\ UpdatesAreTold)'
<1>1. Rebuilt(Drifted) /\ told' = told \cup Drifted /\ held' = held
  BY DEF DriftCheck
<1>2. Drifted \in SUBSET Part /\ \A p \in Drifted : Buildable(p)
  BY DEF Drifted
<1>3. blobs' \in [Part -> Version \cup {NoBlob}] /\ \A q \in Part \ Drifted : blobs'[q] = blobs[q]
  BY <1>1, <1>2, RebuiltBlobs
<1> QED BY <1>1, <1>3 DEF BlobTypes, UpdatesAreTold

LEMMA SubscribedParts ==
  ASSUME subscribed \subseteq Part, [Next]_vars
  PROVE  subscribed' \subseteq Part
<1>1. CASE CallsNext /\ UNCHANGED clientVars
  BY <1>1 DEF clientVars
<1>2. CASE DriftCheck
  BY <1>2 DEF DriftCheck
<1>3. ASSUME NEW p \in Part, PartStep(p) PROVE subscribed' \subseteq Part
  BY <1>3 DEF PartStep, Subscribe, Unsubscribe, Read, Expire, Fetch, FetchMissing
<1>4. CASE UNCHANGED vars
  BY <1>4 DEF vars
<1> QED BY <1>1, <1>2, <1>3, <1>4 DEF Next

(* A client whose copy is not the blob behind its URL is about to learn    *)
(* so, however many calls overlap (getOrRebuild and the `changed` of the   *)
(* ensure...BlobFresh functions, checkSubscriptionsForDrift).              *)
THEOREM UpdatesAreAlwaysTold == Spec => []UpdatesAreTold
<1> DEFINE I == BlobTypes /\ UpdatesAreTold /\ subscribed \subseteq Part
<1>1. Init => I
  BY DEF Init, BlobTypes, UpdatesAreTold
<1>2. I /\ [Next]_vars => I'
  <2> SUFFICES ASSUME I, [Next]_vars PROVE I'
    OBVIOUS
  <2>1. subscribed' \subseteq Part
    BY SubscribedParts
  <2>2. CASE CallsNext /\ UNCHANGED clientVars
    BY <2>1, <2>2 DEF clientVars, BlobTypes, UpdatesAreTold
  <2>3. CASE DriftCheck
    BY <2>1, <2>3, CheckTells
  <2>4. ASSUME NEW p \in Part, PartStep(p) PROVE I'
    BY <2>1, <2>4, PartStepTells
  <2>5. CASE UNCHANGED vars
    BY <2>1, <2>5 DEF vars, BlobTypes, UpdatesAreTold
  <2> QED BY <2>2, <2>3, <2>4, <2>5 DEF Next
<1>3. I => UpdatesAreTold
  OBVIOUS
<1> QED BY <1>1, <1>2, <1>3, PTL DEF Spec
=============================================================================
