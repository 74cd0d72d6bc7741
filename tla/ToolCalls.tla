------------------------------ MODULE ToolCalls ------------------------------
(***************************************************************************)
(* The tool calls of one session that change the graph, cut at their       *)
(* awaits.  The server (ts/src/v2/server.ts) starts a call as soon as its  *)
(* request arrives and nothing makes it wait for the ones before it; all   *)
(* calls share one store in memory and one writer connection, whose        *)
(* statements are answered in the order they were asked.                   *)
(*                                                                         *)
(* persistMutation photographs the store, runs the tool, and writes the    *)
(* parts that changed in a transaction of the connection; if anything      *)
(* fails it puts the photograph back.  DoltSession models what is written  *)
(* and how it is undone with one call at a time; here a part is one        *)
(* version and the interest is in what happens between two statements.     *)
(*                                                                         *)
(* Left out: the statements on action_log and the side tables, and the     *)
(* COMMIT that succeeds without the server hearing of it (EditLostAck of   *)
(* DoltSession).                                                           *)
(***************************************************************************)
EXTENDS Naturals, Sequences

CONSTANTS
    Call,      \* requests that may be in flight together
    Part,      \* part ids
    Version,   \* contents of a part
    Absent,    \* the part does not exist
    NoTxn,     \* the connection has no transaction open
    MaxCalls   \* bound: calls ever made

ASSUME AbsentNotVersion == Absent \notin Version
ASSUME NoTxnNotGraph    == NoTxn \notin [Part -> Version \cup {Absent}]
ASSUME MaxCallsNat      == MaxCalls \in Nat

VARIABLES
    mem,     \* ctx.store: the parts in memory
    disk,    \* the committed rows of the working branch
    txn,     \* the rows as the open transaction sees them, or NoTxn
    line,    \* the calls with a statement asked and not answered, oldest first
    calls,   \* per call: where it stands, its photograph, the rows to write
    made,    \* calls made so far
    checks   \* drift checks scheduled with setImmediate and not run yet

callVars == <<mem, disk, txn, line, calls, made, checks>>

Graph == [Part -> Version \cup {Absent}]
EmptyGraph == [p \in Part |-> Absent]

Await == {"settingsUse", "settings", "use", "begin", "write", "commit", "rollback"}

Idle(c) == calls[c].at = "idle"
Quiet   == \A c \in Call : Idle(c)

Written(rows, p, v) == [rows EXCEPT ![p] = v]

\* What a finished call leaves: its locals are gone.
Done == [at |-> "idle", before |-> EmptyGraph, rows |-> [p \in {} |-> Absent]]

\* A project just created, with the store just cleared.
CallsInit ==
    /\ mem = EmptyGraph
    /\ disk = EmptyGraph
    /\ txn = NoTxn
    /\ line = <<>>
    /\ calls = [c \in Call |-> Done]
    /\ made = 0
    /\ checks = 0

\* The statement of c is the next the connection answers.
Turn(c, at) == calls[c].at = at /\ line # <<>> /\ Head(line) = c

\* The statement is answered and the call runs on to its next await.
Answered(c, at, next) ==
    /\ Turn(c, at)
    /\ calls' = [calls EXCEPT ![c].at = next]
    /\ line' = IF next \in Await THEN Append(Tail(line), c) ELSE Tail(line)

\* The statement is answered and it was the last of the call.
Finished(c, at) ==
    /\ Turn(c, at)
    /\ calls' = [calls EXCEPT ![c] = Done]
    /\ line' = Tail(line)

-----------------------------------------------------------------------------
(* The tool *)

\* The synchronous tools: photograph, and the tool itself in the same turn of
\* the event loop, up to the await of its result.
RunTool(c) ==
    /\ Idle(c) /\ made < MaxCalls
    /\ made' = made + 1
    /\ mem' \in Graph
    /\ calls' = [calls EXCEPT ![c].at = "ran", ![c].before = mem]
    /\ UNCHANGED <<disk, txn, line, checks>>

\* import_part reads the project settings between the photograph and the
\* change: a USE and a SELECT on the writer.
StartImport(c) ==
    /\ Idle(c) /\ made < MaxCalls
    /\ made' = made + 1
    /\ calls' = [calls EXCEPT ![c].at = "settingsUse", ![c].before = mem]
    /\ line' = Append(line, c)
    /\ UNCHANGED <<mem, disk, txn, checks>>

SettingsUsed(c) ==
    /\ Answered(c, "settingsUse", "settings")
    /\ UNCHANGED <<mem, disk, txn, made, checks>>

\* The imported part is new; the tool refuses when a default is missing.
ImportPart(c) ==
    /\ Answered(c, "settings", "ran")
    /\ \E p \in Part, v \in Version :
          /\ mem[p] = Absent
          /\ mem' = Written(mem, p, v)
    /\ UNCHANGED <<disk, txn, made, checks>>

\* The call is over and has succeeded: the answer goes out and a drift check
\* is scheduled.
Succeeded(c) ==
    /\ checks' = checks + 1
    /\ UNCHANGED made

\* Memory goes back to the photograph; the answer is an error and nothing is
\* scheduled.
Restored(c) ==
    /\ mem' = calls[c].before
    /\ UNCHANGED <<made, checks>>

-----------------------------------------------------------------------------
(* persistMutation after the tool *)

ChangedParts(c) == {p \in Part : calls[c].before[p] # mem[p]}

\* Nothing changed: the call succeeds without touching the storage.
NothingToSave(c) ==
    /\ calls[c].at = "ran" /\ ChangedParts(c) = {}
    /\ calls' = [calls EXCEPT ![c] = Done]
    /\ Succeeded(c)
    /\ UNCHANGED <<mem, disk, txn, line>>

SaveChanges(c) ==
    /\ calls[c].at = "ran" /\ ChangedParts(c) # {}
    /\ calls' = [calls EXCEPT ![c].at = "use",
                              ![c].rows = [p \in ChangedParts(c) |-> mem[p]]]
    /\ line' = Append(line, c)
    /\ UNCHANGED <<mem, disk, txn, made, checks>>

\* The tool throws, or what it left does not pass the checks before the save.
Refuse(c) ==
    /\ calls[c].at = "ran"
    /\ calls' = [calls EXCEPT ![c] = Done]
    /\ Restored(c)
    /\ UNCHANGED <<disk, txn, line>>

-----------------------------------------------------------------------------
(* The statements of applyChange *)

BranchUsed(c) ==
    /\ Answered(c, "use", "begin")
    /\ UNCHANGED <<mem, disk, txn, made, checks>>

\* START TRANSACTION commits the transaction the connection has open, if any.
Begin(c) ==
    /\ Answered(c, "begin", "write")
    /\ disk' = IF txn = NoTxn THEN disk ELSE txn
    /\ txn' = disk'
    /\ UNCHANGED <<mem, made, checks>>

\* One statement per changed part, in the transaction that is open, or
\* committed at once when there is none.
WriteRow(c) ==
    \E p \in DOMAIN calls[c].rows :
      LET v    == calls[c].rows[p]
          left == DOMAIN calls[c].rows \ {p}
      IN /\ Turn(c, "write")
         /\ calls' = [calls EXCEPT ![c].rows = [q \in left |-> @[q]],
                                   ![c].at = IF left = {} THEN "commit" ELSE "write"]
         /\ line' = Append(Tail(line), c)
         /\ IF txn = NoTxn
               THEN disk' = Written(disk, p, v) /\ UNCHANGED txn
               ELSE txn' = Written(txn, p, v) /\ UNCHANGED disk
         /\ UNCHANGED <<mem, made, checks>>

Commit(c) ==
    /\ Finished(c, "commit")
    /\ disk' = IF txn = NoTxn THEN disk ELSE txn
    /\ txn' = NoTxn
    /\ Succeeded(c)
    /\ UNCHANGED mem

\* A statement fails outside the transaction: no ROLLBACK is sent.
FailOutside(c) ==
    /\ \E at \in {"settingsUse", "settings", "use", "begin"} : Finished(c, at)
    /\ Restored(c)
    /\ UNCHANGED <<disk, txn>>

\* Wrong: the call ends without a ROLLBACK.
FailInsideNoRollback(c) ==
    /\ \E at \in {"write", "commit"} : Finished(c, at)
    /\ Restored(c)
    /\ UNCHANGED <<disk, txn>>

FailInside(c) ==
    /\ \E at \in {"write", "commit"} : Answered(c, at, "rollback")
    /\ UNCHANGED <<mem, disk, txn, made, checks>>

\* ROLLBACK; when the connection is gone the server drops the transaction.
Rollback(c) ==
    /\ Finished(c, "rollback")
    /\ txn' = NoTxn
    /\ Restored(c)
    /\ UNCHANGED disk

CallStep(c) ==
    \/ RunTool(c) \/ StartImport(c) \/ SettingsUsed(c) \/ ImportPart(c)
    \/ NothingToSave(c) \/ SaveChanges(c) \/ Refuse(c)
    \/ BranchUsed(c) \/ Begin(c) \/ WriteRow(c) \/ Commit(c)
    \/ FailOutside(c) \/ FailInside(c) \/ Rollback(c)

CallsNext == \E c \in Call : CallStep(c)

CallsSpec == CallsInit /\ [][CallsNext]_callVars
=============================================================================
