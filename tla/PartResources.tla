---------------------------- MODULE PartResources ----------------------------
(***************************************************************************)
(* What a client sees of a part: the geometry blob behind its stable URL   *)
(* (ts/src/v2/blob-cache.ts, blob-server.ts), the reads that rebuild it    *)
(* (resources/graph.ts) and the subscriptions whose drift check rebuilds   *)
(* it after a call and notifies the client (server.ts).                    *)
(*                                                                         *)
(* The check runs on its own turn of the event loop, so it may come        *)
(* between two statements of a later call, when memory holds parts that    *)
(* are not stored yet; a notification is on its way while the part changes *)
(* again; an entry may expire between the notification and the fetch.      *)
(* One resource type of a part stands for the three.                       *)
(***************************************************************************)
EXTENDS ToolCalls

CONSTANTS
    Bad,        \* versions the kernel cannot build
    NoBlob,     \* no entry in the cache; nothing fetched yet
    MaxExpiries \* bound: entries that expire

ASSUME BadAreVersions == Bad \subseteq Version
ASSUME NoBlobNotVersion == NoBlob \notin Version
ASSUME MaxExpiriesNat == MaxExpiries \in Nat

VARIABLES
    blobs,       \* v2BlobCache: the version the entry of a part was built from
    subscribed,  \* subscribedUris
    told,        \* parts the client was told of, by a notification or by the
                 \* answer to its own read, and has not fetched since
    held,        \* what the client fetched last
    expiries     \* entries expired so far

clientVars == <<blobs, subscribed, told, held, expiries>>
vars == <<mem, disk, txn, line, calls, made, checks, blobs, subscribed, told, held, expiries>>

Init ==
    /\ CallsInit
    /\ blobs = [p \in Part |-> NoBlob]
    /\ held = [p \in Part |-> NoBlob]
    /\ subscribed = {} /\ told = {}
    /\ expiries = 0

Buildable(p) == mem[p] \in Version \ Bad

\* The entry is missing, or was built from other rows.
Outdated(p) == blobs[p] # mem[p]

Rebuilt(P) == blobs' = [p \in Part |-> IF p \in P THEN mem[p] ELSE blobs[p]]

-----------------------------------------------------------------------------
(* The server *)

Subscribe(p) ==
    /\ p \notin subscribed
    /\ subscribed' = subscribed \cup {p}
    /\ UNCHANGED <<callVars, blobs, told, held, expiries>>

Unsubscribe(p) ==
    /\ p \in subscribed
    /\ subscribed' = subscribed \ {p}
    /\ UNCHANGED <<callVars, blobs, told, held, expiries>>

\* Wrong: one part that cannot be built ends the check.
DriftedUntilFailure ==
    IF \A p \in subscribed : Buildable(p) \/ mem[p] = Absent
    THEN {p \in subscribed : Buildable(p) /\ Outdated(p)} ELSE {}

\* The subscribed parts whose blob the check rebuilds.  One that cannot be
\* built keeps its old blob and does not stop the others.
Drifted == {p \in subscribed : Buildable(p) /\ Outdated(p)}

\* Wrong: a missing entry does not count as a change.
DriftCheckKnownOnly ==
    /\ checks > 0
    /\ checks' = checks - 1
    /\ Rebuilt(Drifted)
    /\ told' = told \cup {p \in Drifted : blobs[p] # NoBlob}
    /\ UNCHANGED <<mem, disk, txn, line, calls, made, subscribed, held, expiries>>

DriftCheck ==
    /\ checks > 0
    /\ checks' = checks - 1
    /\ Rebuilt(Drifted)
    /\ told' = told \cup Drifted
    /\ UNCHANGED <<mem, disk, txn, line, calls, made, subscribed, held, expiries>>

\* A resource read answers with the URL once the entry is fresh, and with an
\* error when the part is gone or cannot be built.
Read(p) ==
    /\ Buildable(p)
    /\ Rebuilt({p})
    /\ told' = told \cup {p}
    /\ UNCHANGED <<callVars, subscribed, held, expiries>>

Expire(p) ==
    /\ blobs[p] # NoBlob
    /\ expiries < MaxExpiries
    /\ expiries' = expiries + 1
    /\ blobs' = [blobs EXCEPT ![p] = NoBlob]
    /\ UNCHANGED <<callVars, subscribed, told, held>>

-----------------------------------------------------------------------------
(* The client *)

\* GET of the URL the client was told of.
Fetch(p) ==
    /\ p \in told /\ blobs[p] # NoBlob
    /\ held' = [held EXCEPT ![p] = blobs[p]]
    /\ told' = told \ {p}
    /\ UNCHANGED <<callVars, blobs, subscribed, expiries>>

\* 404: the client reads the resource again and fetches what it names.
FetchMissing(p) ==
    /\ p \in told /\ blobs[p] = NoBlob
    /\ IF Buildable(p)
          THEN Rebuilt({p}) /\ UNCHANGED told
          ELSE told' = told \ {p} /\ UNCHANGED blobs
    /\ UNCHANGED <<callVars, subscribed, held, expiries>>

PartStep(p) ==
    \/ Subscribe(p) \/ Unsubscribe(p) \/ Read(p) \/ Expire(p)
    \/ Fetch(p) \/ FetchMissing(p)

Next ==
    \/ CallsNext /\ UNCHANGED clientVars
    \/ DriftCheck
    \/ \E p \in Part : PartStep(p)

\* setImmediate callbacks run; a notification on stdio arrives; a client that
\* was notified asks for the blob.  Nothing is assumed of calls, reads,
\* subscriptions or expiry.
Fairness ==
    /\ WF_vars(DriftCheck)
    /\ \A p \in Part : WF_vars(Fetch(p)) /\ WF_vars(FetchMissing(p))

Spec == Init /\ [][Next]_vars /\ Fairness

-----------------------------------------------------------------------------
(* With one call at a time, memory and the committed rows are the same     *)
(* whenever no call is under way, whatever failed: persist-mutation.ts     *)
(* lines 12-13.  (Two overlapping calls break it.)                         *)
MemoryIsStored == Quiet => mem = disk /\ txn = NoTxn

(* A client whose copy differs from the blob behind the URL it holds is    *)
(* about to learn of it: every path that replaces a blob, after an expiry  *)
(* too, ends in a notification or in a fetch of the reader's own.          *)
UpdatesAreTold ==
    \A p \in Part : blobs[p] \notin {NoBlob, held[p]} => p \in told

(* Once calls are over and a check is due, every subscriber of a part that *)
(* can be built ends with the geometry of the part as it is, unless a new  *)
(* call starts or it unsubscribes, whether or not the entry expires on the *)
(* way and whatever other parts cannot be built.                           *)
SubscribersCatchUp ==
    \A p \in Part :
        (Quiet /\ checks > 0 /\ p \in subscribed /\ Buildable(p))
            ~> (held[p] = mem[p] \/ ~Quiet \/ p \notin subscribed)
=============================================================================
