----------------------- MODULE GeometryKernel_proofs -----------------------
(***************************************************************************)
(* Proofs about the geometry kernel: its registries stay consistent, a     *)
(* token stands for the state before the call that issued it, and a call   *)
(* that fails leaves the bodies it found or a snapshot of them, whatever   *)
(* the shapes and however many ids are issued.  What an assembly lists is  *)
(* in its document, whatever is restored.                                  *)
(*                                                                         *)
(* Every operation of the kernel is shown to be one kind of step           *)
(* (KernelStep); the three properties are proved of that kind of step.     *)
(***************************************************************************)
EXTENDS GeometryKernel, TLAPS

-----------------------------------------------------------------------------
(* What the parent of a new shell may be when n is the next id. *)
MayBeParent(p, g, n) ==
    p = None \/ (Issued(p, n) /\ p[2] = 0 /\ p \notin DOMAIN g.shells)

(* The ids of new bodies: never issued before, or a preview's. *)
Fresh(x, g, n, m) ==
    /\ Issued(x, m) /\ x \notin DOMAIN g.solids
    /\ ~ (Issued(x, n) /\ x[2] = 0)

(* Registries that are well-formed stay so when more ids are issued. *)
LEMMA MoreIds ==
    ASSUME NEW g, NEW n \in Nat, NEW m \in Nat, n <= m, WellFormed(g, n)
    PROVE  WellFormed(g, m)
BY DEF WellFormed, Issued

(* New shells of one parent, under the ids of S. *)
WithShellsOf(g, S, p, shape) ==
    [g EXCEPT !.shells =
        [x \in DOMAIN @ \cup S |->
            IF x \in DOMAIN @ THEN @[x] ELSE ShellState(p, shape)]]

(* Adding a set of shells under fresh ids, all with one parent. *)
LEMMA MoreShells ==
    ASSUME NEW g, NEW n \in Nat, NEW m \in Nat, n <= m, WellFormed(g, n),
           NEW S, \A x \in S : Fresh(x, g, n, m),
           NEW p, MayBeParent(p, g, n), NEW shape, NEW h,
           h = WithShellsOf(g, S, p, shape)
    PROVE  WellFormed(h, m)
<1> DEFINE k == [x \in DOMAIN g.shells \cup S |->
                    IF x \in DOMAIN g.shells THEN g.shells[x] ELSE ShellState(p, shape)]
<1>1. /\ h = [solids |-> g.solids, shells |-> k,
              unfolds |-> g.unfolds, assemblies |-> g.assemblies]
  BY DEF WellFormed, WithShellsOf
<1>2. /\ h.solids = g.solids /\ h.shells = k
      /\ h = [solids |-> h.solids, shells |-> h.shells,
              unfolds |-> h.unfolds, assemblies |-> h.assemblies]
  BY <1>1
<1>3. DOMAIN k = DOMAIN g.shells \cup S
  OBVIOUS
<1>4. ASSUME NEW x \in DOMAIN k
      PROVE  /\ Issued(x, m) /\ x \notin DOMAIN g.solids
             /\ k[x] = ShellState(k[x].parent, k[x].shape)
             /\ k[x].parent = None \/ (/\ Issued(k[x].parent, n) /\ k[x].parent[2] = 0
                                       /\ k[x].parent \notin DOMAIN g.shells)
  <2>1. CASE x \in DOMAIN g.shells
    BY <2>1, <1>3 DEF WellFormed, Issued
  <2>2. CASE x \notin DOMAIN g.shells
    BY <2>2, <1>3 DEF Fresh, MayBeParent, ShellState
  <2> QED BY <2>1, <2>2
<1>5. ASSUME NEW x \in DOMAIN k
      PROVE  k[x].parent = None \/ (/\ Issued(k[x].parent, m) /\ k[x].parent[2] = 0
                                    /\ k[x].parent \notin DOMAIN k)
  <2> PICK q : q = k[x].parent
    OBVIOUS
  <2> SUFFICES ASSUME q # None
               PROVE  Issued(q, m) /\ q[2] = 0 /\ q \notin DOMAIN k
    OBVIOUS
  <2>1. Issued(q, n) /\ q[2] = 0 /\ q \notin DOMAIN g.shells
    BY <1>4
  <2>2. q \notin S
    BY <2>1 DEF Fresh
  <2>3. Issued(q, m)
    BY <2>1 DEF Issued
  <2> QED BY <1>3, <2>1, <2>2, <2>3
<1>6. \A x \in DOMAIN g.solids : Issued(x, m) /\ x[2] = 0
  BY DEF WellFormed, Issued
<1> HIDE DEF k
<1> QED BY <1>2, <1>4, <1>5, <1>6 DEF WellFormed

(* Adding, or overwriting, one shell under a fresh id. *)
LEMMA OneShell ==
    ASSUME NEW g, NEW n \in Nat, NEW m \in Nat, n <= m, WellFormed(g, n),
           NEW x, Fresh(x, g, n, m),
           NEW p, MayBeParent(p, g, n), NEW shape, NEW h,
           h = WithShell(g, x, p, shape)
    PROVE  WellFormed(h, m)
<1> DEFINE k == [y \in DOMAIN g.shells \cup {x} |->
                    IF y = x THEN ShellState(p, shape) ELSE g.shells[y]]
<1>1. /\ h = [solids |-> g.solids, shells |-> k,
              unfolds |-> g.unfolds, assemblies |-> g.assemblies]
  BY DEF WellFormed, WithShell, Put
<1>2. /\ h.solids = g.solids /\ h.shells = k
      /\ h = [solids |-> h.solids, shells |-> h.shells,
              unfolds |-> h.unfolds, assemblies |-> h.assemblies]
  BY <1>1
<1>3. DOMAIN k = DOMAIN g.shells \cup {x}
  OBVIOUS
<1>4. ASSUME NEW y \in DOMAIN k
      PROVE  /\ Issued(y, m) /\ y \notin DOMAIN g.solids
             /\ k[y] = ShellState(k[y].parent, k[y].shape)
             /\ k[y].parent = None \/ (/\ Issued(k[y].parent, n) /\ k[y].parent[2] = 0
                                       /\ k[y].parent \notin DOMAIN g.shells)
  <2>1. CASE y # x
    BY <2>1, <1>3 DEF WellFormed, Issued
  <2>2. CASE y = x
    BY <2>2, <1>3 DEF Fresh, MayBeParent, ShellState
  <2> QED BY <2>1, <2>2
<1>5. ASSUME NEW y \in DOMAIN k
      PROVE  k[y].parent = None \/ (/\ Issued(k[y].parent, m) /\ k[y].parent[2] = 0
                                    /\ k[y].parent \notin DOMAIN k)
  <2> PICK q : q = k[y].parent
    OBVIOUS
  <2> SUFFICES ASSUME q # None
               PROVE  Issued(q, m) /\ q[2] = 0 /\ q \notin DOMAIN k
    OBVIOUS
  <2>1. Issued(q, n) /\ q[2] = 0 /\ q \notin DOMAIN g.shells
    BY <1>4
  <2>2. q # x
    BY <2>1 DEF Fresh
  <2>3. Issued(q, m)
    BY <2>1 DEF Issued
  <2> QED BY <1>3, <2>1, <2>2, <2>3
<1>6. \A y \in DOMAIN g.solids : Issued(y, m) /\ y[2] = 0
  BY DEF WellFormed, Issued
<1> HIDE DEF k
<1> QED BY <1>2, <1>4, <1>5, <1>6 DEF WellFormed

(* Adding one solid under an id never issued before. *)
LEMMA OneSolid ==
    ASSUME NEW g, NEW n \in Nat, NEW m \in Nat, n <= m, WellFormed(g, n),
           NEW x, Issued(x, m), x[2] = 0, ~ Issued(x, n),
           NEW shape, NEW h, h = WithSolid(g, x, shape)
    PROVE  WellFormed(h, m)
<1> DEFINE k == [y \in DOMAIN g.solids \cup {x} |->
                    IF y = x THEN shape ELSE g.solids[y]]
<1>1. /\ h = [solids |-> k, shells |-> g.shells,
              unfolds |-> g.unfolds, assemblies |-> g.assemblies]
  BY DEF WellFormed, WithSolid, Put
<1>2. /\ h.solids = k /\ h.shells = g.shells
      /\ h = [solids |-> h.solids, shells |-> h.shells,
              unfolds |-> h.unfolds, assemblies |-> h.assemblies]
  BY <1>1
<1>3. DOMAIN k = DOMAIN g.solids \cup {x}
  OBVIOUS
<1>4. WellFormed(g, m)
  BY MoreIds
<1>5. x \notin DOMAIN g.shells
  BY DEF WellFormed
<1> HIDE DEF k
<1> QED BY <1>2, <1>3, <1>4, <1>5 DEF WellFormed

(* Dropping bodies. *)
LEMMA FewerBodies ==
    ASSUME NEW g, NEW n \in Nat, WellFormed(g, n), NEW S, NEW T, NEW h,
           \/ h = [g EXCEPT !.solids = Drop(@, S), !.shells = Drop(@, T)]
           \/ h = [g EXCEPT !.solids = Drop(@, S)]
           \/ h = [g EXCEPT !.shells = Drop(@, T)]
    PROVE  WellFormed(h, n)
<1> DEFINE j == Drop(g.solids, S)
           k == Drop(g.shells, T)
<1>1. \E p \in {g.solids, j}, q \in {g.shells, k} :
         h = [solids |-> p, shells |-> q,
              unfolds |-> g.unfolds, assemblies |-> g.assemblies]
  BY DEF WellFormed
<1>2. PICK p \in {g.solids, j}, q \in {g.shells, k} :
         h = [solids |-> p, shells |-> q,
              unfolds |-> g.unfolds, assemblies |-> g.assemblies]
  BY <1>1
<1>3. /\ h.solids = p /\ h.shells = q
      /\ h = [solids |-> h.solids, shells |-> h.shells,
              unfolds |-> h.unfolds, assemblies |-> h.assemblies]
  BY <1>2
<1>4. /\ DOMAIN p \subseteq DOMAIN g.solids
      /\ DOMAIN q \subseteq DOMAIN g.shells
      /\ \A x \in DOMAIN q : q[x] = g.shells[x]
  BY DEF Drop
<1> HIDE DEF j, k
<1> QED BY <1>3, <1>4 DEF WellFormed

(* Replacing the shape of a body. *)
LEMMA OtherShape ==
    ASSUME NEW g, NEW n \in Nat, WellFormed(g, n), NEW id \in Bodies(g),
           NEW shape, NEW h, h = Reshaped(g, id, shape)
    PROVE  WellFormed(h, n)
<1>1. CASE id \in DOMAIN g.shells
  <2> DEFINE k == [g.shells EXCEPT ![id].shape = shape]
  <2>1. h = [solids |-> g.solids, shells |-> k,
             unfolds |-> g.unfolds, assemblies |-> g.assemblies]
    BY <1>1 DEF Reshaped, WellFormed
  <2>2. /\ h.solids = g.solids /\ h.shells = k
        /\ h = [solids |-> h.solids, shells |-> h.shells,
                unfolds |-> h.unfolds, assemblies |-> h.assemblies]
    BY <2>1
  <2>3. /\ DOMAIN k = DOMAIN g.shells
        /\ \A x \in DOMAIN k : /\ k[x].parent = g.shells[x].parent
                               /\ k[x] = ShellState(k[x].parent, k[x].shape)
    BY <1>1 DEF WellFormed, ShellState
  <2> HIDE DEF k
  <2> QED BY <2>2, <2>3 DEF WellFormed
<1>2. CASE id \notin DOMAIN g.shells
  <2> DEFINE k == [g.solids EXCEPT ![id] = shape]
  <2>1. h = [solids |-> k, shells |-> g.shells,
             unfolds |-> g.unfolds, assemblies |-> g.assemblies]
    BY <1>2 DEF Reshaped, WellFormed
  <2>2. /\ h.solids = k /\ h.shells = g.shells
        /\ h = [solids |-> h.solids, shells |-> h.shells,
                unfolds |-> h.unfolds, assemblies |-> h.assemblies]
    BY <2>1
  <2>3. DOMAIN k = DOMAIN g.solids
    OBVIOUS
  <2> HIDE DEF k
  <2> QED BY <2>2, <2>3 DEF WellFormed
<1> QED BY <1>1, <1>2

(* The unfolds and the assemblies are no part of the condition. *)
LEMMA OtherRegistries ==
    ASSUME NEW g, NEW n \in Nat, WellFormed(g, n), NEW u, NEW a, NEW h,
           h = [g EXCEPT !.unfolds = u] \/ h = [g EXCEPT !.assemblies = a]
    PROVE  WellFormed(h, n)
<1>1. g = [solids |-> g.solids, shells |-> g.shells,
           unfolds |-> g.unfolds, assemblies |-> g.assemblies]
  BY DEF WellFormed
<1>2. h.solids = g.solids /\ h.shells = g.shells
  BY <1>1
<1>3. h = [solids |-> h.solids, shells |-> h.shells,
           unfolds |-> h.unfolds, assemblies |-> h.assemblies]
  BY <1>1
<1> QED BY <1>2, <1>3 DEF WellFormed

(* No bodies at all. *)
LEMMA NoBodies == ASSUME NEW n \in Nat PROVE WellFormed(EmptyState, n)
BY DEF WellFormed, EmptyState, NoMap

(* New shells leave the bodies there were alone. *)
LEMMA MoreShellsKeep ==
    ASSUME NEW g, NEW n, NEW m, WellFormed(g, n),
           NEW S, \A x \in S : Fresh(x, g, n, m), NEW p, NEW shape, NEW h,
           h = WithShellsOf(g, S, p, shape)
    PROVE  Kept(g, h)
<1> DEFINE k == [x \in DOMAIN g.shells \cup S |->
                    IF x \in DOMAIN g.shells THEN g.shells[x] ELSE ShellState(p, shape)]
<1>1. h = [solids |-> g.solids, shells |-> k,
           unfolds |-> g.unfolds, assemblies |-> g.assemblies]
  BY DEF WellFormed, WithShellsOf
<1>2. h.solids = g.solids /\ h.shells = k
  BY <1>1
<1>3. DOMAIN k = DOMAIN g.shells \cup S /\ \A x \in DOMAIN g.shells : k[x] = g.shells[x]
  OBVIOUS
<1>4. \A x \in DOMAIN g.solids : x \notin S
  BY DEF Fresh
<1> HIDE DEF k
<1> QED BY <1>2, <1>3, <1>4 DEF Kept, Bodies, ShapeOf
-----------------------------------------------------------------------------
(* What every state satisfies; the tokens are ids that were issued. *)
KernelInv ==
    /\ RegistryConsistent
    /\ \A t \in DOMAIN snapshots : Issued(t, nextId)

(* What every operation does. *)
KernelStep ==
    /\ nextId' \in Nat /\ nextId <= nextId'
    /\ WellFormed(live', nextId')
    /\ \/ snapshots' = snapshots
       \/ snapshots' = NoMap
       \/ nextId < nextId' /\ snapshots' = Put(snapshots, Id(0), live)
    /\ \/ last'.ok
       \/ Kept(live, live')
       \/ last'.hint /\ nextId < nextId' /\ snapshots' = Put(snapshots, Id(0), live)

(* Such a step keeps the invariant. *)
LEMMA StepKeepsInv ==
    ASSUME KernelInv, KernelStep
    PROVE  KernelInv'
<1>1. nextId \in Nat \ {0} /\ nextId' \in Nat \ {0}
  BY DEF KernelInv, RegistryConsistent, KernelStep
<1>2. ASSUME NEW t \in DOMAIN snapshots'
      PROVE  /\ Issued(t, nextId')
             /\ snapshots'[t] = live \/ (t \in DOMAIN snapshots /\ snapshots'[t] = snapshots[t])
  <2>1. CASE snapshots' = snapshots
    BY <1>1, <1>2, <2>1 DEF KernelInv, Issued, KernelStep
  <2>2. CASE snapshots' = NoMap
    BY <1>2, <2>2 DEF NoMap
  <2>3. CASE nextId < nextId' /\ snapshots' = Put(snapshots, Id(0), live)
    <3>1. Issued(Id(0), nextId')
      <4>1. Id(0)[1] = nextId /\ Id(0)[2] = 0
        BY <1>1 DEF Id
      <4> QED BY <1>1, <2>3, <4>1 DEF Issued
    <3>2. ASSUME NEW u \in DOMAIN snapshots PROVE Issued(u, nextId')
      BY <1>1, <2>3 DEF KernelInv, Issued
    <3> QED BY <1>2, <2>3, <3>1, <3>2 DEF Put
  <2> QED BY <2>1, <2>2, <2>3 DEF KernelStep
<1>3. \A t \in DOMAIN snapshots' : WellFormed(snapshots'[t], nextId')
  <2> TAKE t \in DOMAIN snapshots'
  <2>1. WellFormed(live, nextId) /\ \A u \in DOMAIN snapshots : WellFormed(snapshots[u], nextId)
    BY DEF KernelInv, RegistryConsistent
  <2>2. nextId \in Nat /\ nextId' \in Nat /\ nextId <= nextId'
    BY <1>1 DEF KernelStep
  <2> QED BY <1>2, <2>1, <2>2, MoreIds
<1>4. WellFormed(live', nextId')
  BY DEF KernelStep
<1> QED BY <1>1, <1>2, <1>3, <1>4 DEF KernelInv, RegistryConsistent

(* Such a step leaves the tokens what they stand for. *)
LEMMA StepKeepsTokens ==
    ASSUME KernelInv, KernelStep
    PROVE  \A t \in DOMAIN snapshots' :
              snapshots'[t] = IF t \in DOMAIN snapshots THEN snapshots[t] ELSE live
<1> TAKE t \in DOMAIN snapshots'
<1>1. CASE snapshots' = snapshots
  BY <1>1
<1>2. CASE snapshots' = NoMap
  BY <1>2 DEF NoMap
<1>3. CASE snapshots' = Put(snapshots, Id(0), live)
  <2>1. Id(0) \notin DOMAIN snapshots
    <3>1. Id(0)[1] = nextId
      BY DEF Id, KernelInv, RegistryConsistent
    <3> QED BY <3>1 DEF KernelInv, RegistryConsistent, Issued
  <2> QED BY <1>3, <2>1 DEF Put
<1> QED BY <1>1, <1>2, <1>3 DEF KernelStep

(* Such a step, when it fails, keeps the bodies or a snapshot of them. *)
LEMMA StepFailsSafely ==
    ASSUME KernelInv, KernelStep
    PROVE  ~ last'.ok =>
              \/ Kept(live, live')
              \/ last'.hint /\ \E t \in DOMAIN snapshots' : snapshots'[t] = live
<1>1. ASSUME snapshots' = Put(snapshots, Id(0), live)
      PROVE  \E t \in DOMAIN snapshots' : snapshots'[t] = live
  BY <1>1 DEF Put
<1> QED BY <1>1 DEF KernelStep
-----------------------------------------------------------------------------
(* A call that changes nothing. *)
LEMMA NothingChanged ==
    ASSUME KernelInv, UNCHANGED <<live, snapshots, nextId>>
    PROVE  KernelStep
<1>1. Kept(live, live')
  BY DEF Kept
<1> QED BY <1>1 DEF KernelInv, RegistryConsistent, KernelStep

(* A query that answers, or a call that is refused. *)
LEMMA RefusedStep == ASSUME KernelInv, Refused \/ Answered PROVE KernelStep
BY NothingChanged DEF Refused, Answered

(* A call that takes its snapshot before it issues n more ids. *)
LEMMA GuardedStep ==
    ASSUME KernelInv, NEW n \in Nat, Issue(n + 1), snapshots' = Snapshot,
           WellFormed(live', nextId + n + 1),
           last'.ok \/ last'.hint \/ Kept(live, live')
    PROVE  KernelStep
<1>1. nextId \in Nat /\ nextId' = nextId + n + 1
  BY DEF KernelInv, RegistryConsistent, Issue
<1>2. nextId' \in Nat /\ nextId < nextId' /\ nextId <= nextId'
  BY <1>1
<1> QED BY <1>1, <1>2 DEF KernelStep, Snapshot

(* A call that takes none. *)
LEMMA UnguardedStep ==
    ASSUME KernelInv, NEW n \in Nat, Issue(n), snapshots' = snapshots,
           WellFormed(live', nextId + n), last'.ok \/ Kept(live, live')
    PROVE  KernelStep
<1>1. nextId \in Nat /\ nextId' = nextId + n
  BY DEF KernelInv, RegistryConsistent, Issue
<1> QED BY <1>1 DEF KernelStep

(* Guarded calls that leave the bodies as they were. *)
LEMMA FailedStep ==
    ASSUME KernelInv, NEW n \in Nat, Issue(n + 1), snapshots' = Snapshot, live' = live
    PROVE  KernelStep
<1>1. WellFormed(live, nextId + n + 1)
  <2>1. nextId \in Nat /\ nextId + n + 1 \in Nat /\ nextId <= nextId + n + 1
    BY DEF KernelInv, RegistryConsistent
  <2> QED BY <2>1, MoreIds DEF KernelInv, RegistryConsistent
<1>2. Kept(live, live')
  BY DEF Kept
<1> QED BY <1>1, <1>2, GuardedStep

(* The same in the words of the operations. *)
LEMMA NotDoneStep ==
    ASSUME KernelInv, NEW n \in Nat,
           NotDone \/ Failed(live, n, FALSE) \/ Done(live, n) \/ DoneNoToken(live, n)
    PROVE  KernelStep
<1>1. \E m \in {0, n} : Issue(m + 1) /\ snapshots' = Snapshot /\ live' = live
  BY DEF NotDone, Failed, Done, DoneNoToken, Guarded
<1> QED BY <1>1, FailedStep

(* Guarded calls that replace the shape of a body. *)
LEMMA ReshapedStep ==
    ASSUME KernelInv, NEW id \in Parts, NEW shape, NEW n \in Nat,
           \/ Done(Reshaped(live, id, shape), n)
           \/ Failed(Reshaped(live, id, shape), n, TRUE)
    PROVE  KernelStep
<1>1. /\ Issue(n + 1) /\ snapshots' = Snapshot
      /\ live' = Reshaped(live, id, shape)
      /\ last'.ok \/ last'.hint
  BY DEF Done, Failed, Guarded, Answer
<1>2. nextId \in Nat /\ nextId + n + 1 \in Nat /\ nextId <= nextId + n + 1
      /\ WellFormed(live, nextId)
  BY DEF KernelInv, RegistryConsistent
<1>3. WellFormed(live', nextId)
  BY <1>1, <1>2, OtherShape DEF Parts
<1>4. WellFormed(live', nextId + n + 1)
  BY <1>2, <1>3, MoreIds
<1> QED BY <1>1, <1>4, GuardedStep

(* The ids a call issues. *)
LEMMA IdIsFresh ==
    ASSUME NEW g, NEW i \in Nat, NEW m \in Nat, nextId \in Nat \ {0},
           WellFormed(g, nextId), nextId + i < m
    PROVE  Fresh(Id(i), g, nextId, m) /\ Id(i)[2] = 0 /\ ~ Issued(Id(i), nextId)
           /\ Issued(Id(i), m)
<1>1. Id(i)[1] = nextId + i /\ Id(i)[2] = 0
  BY DEF Id
<1>2. ~ Issued(Id(i), nextId) /\ Issued(Id(i), m)
  BY <1>1 DEF Issued
<1> QED BY <1>1, <1>2 DEF Fresh, WellFormed

(* Several new shells of one parent under fresh ids: well-formed, and what *)
(* was there is kept.                                                      *)
LEMMA FreshShells ==
    ASSUME NEW g, NEW n \in Nat, NEW first \in Nat, nextId \in Nat \ {0},
           WellFormed(g, nextId), NEW p, MayBeParent(p, g, nextId), NEW shape,
           NEW h, h = WithShells(g, first, n, p, shape)
    PROVE  WellFormed(h, nextId + first + n) /\ Kept(g, h)
<1> PICK S : S = {Id(first + i) : i \in 0 .. n - 1}
  OBVIOUS
<1>1. \A x \in S : Fresh(x, g, nextId, nextId + first + n)
  <2> TAKE x \in S
  <2> PICK i \in 0 .. n - 1 : x = Id(first + i)
    OBVIOUS
  <2>1. first + i \in Nat /\ nextId + first + n \in Nat
        /\ nextId + (first + i) < nextId + first + n
    OBVIOUS
  <2> QED BY <2>1, IdIsFresh
<1>2. h = WithShellsOf(g, S, p, shape)
  BY DEF WithShells, WithShellsOf
<1>3. nextId \in Nat /\ nextId + first + n \in Nat /\ nextId <= nextId + first + n
  OBVIOUS
<1>4. WellFormed(h, nextId + first + n)
  BY <1>1, <1>2, <1>3, MoreShells
<1>5. Kept(g, h)
  BY <1>1, <1>2, MoreShellsKeep
<1> QED BY <1>4, <1>5

(* A guarded call that registers n shells next to the bodies of g, which   *)
(* are those there are or fewer.                                           *)
LEMMA ShellsStep ==
    ASSUME KernelInv, NEW g, WellFormed(g, nextId), NEW n \in Nat,
           NEW p, MayBeParent(p, g, nextId), NEW shape,
           \/ Done(WithShells(g, 1, n, p, shape), n)
           \/ Failed(WithShells(g, 1, n, p, shape), n, TRUE)
           \/ g = live /\ Failed(WithShells(g, 1, n, p, shape), n, FALSE)
    PROVE  KernelStep
<1>1. /\ Issue(n + 1) /\ snapshots' = Snapshot
      /\ live' = WithShells(g, 1, n, p, shape)
      /\ last'.ok \/ last'.hint \/ g = live
  BY DEF Done, Failed, Guarded, Answer
<1>2. nextId \in Nat \ {0} /\ nextId + 1 + n = nextId + n + 1
  BY DEF KernelInv, RegistryConsistent
<1>3. WellFormed(live', nextId + 1 + n) /\ Kept(g, live')
  BY <1>1, <1>2, FreshShells
<1>4. WellFormed(live', nextId + n + 1)
  BY <1>2, <1>3
<1> QED BY <1>1, <1>3, <1>4, GuardedStep

(* A guarded call that registers one shell. *)
LEMMA ShellStep ==
    ASSUME KernelInv, NEW g, WellFormed(g, nextId), NEW p, MayBeParent(p, g, nextId),
           NEW shape, NEW h, h = WithShell(g, Id(1), p, shape),
           Done(h, 1) \/ DoneNoToken(h, 1) \/ Failed(h, 1, TRUE)
    PROVE  KernelStep
<1>1. /\ Issue(1 + 1) /\ snapshots' = Snapshot /\ live' = h
      /\ last'.ok \/ last'.hint
  BY DEF Done, DoneNoToken, Failed, Guarded, Answer
<1>2. nextId \in Nat \ {0} /\ nextId + 1 + 1 \in Nat /\ nextId <= nextId + 1 + 1
      /\ nextId + 1 < nextId + 1 + 1
  BY DEF KernelInv, RegistryConsistent
<1>3. Fresh(Id(1), g, nextId, nextId + 1 + 1)
  BY <1>2, IdIsFresh
<1> PICK x : x = Id(1)
  OBVIOUS
<1>4. WellFormed(h, nextId + 1 + 1)
  BY <1>2, <1>3, OneShell
<1> QED BY <1>1, <1>4, GuardedStep

(* A guarded call that registers one solid. *)
LEMMA SolidStep ==
    ASSUME KernelInv, NEW g, WellFormed(g, nextId), NEW shape,
           NEW h, h = WithSolid(g, Id(1), shape), Done(h, 1) \/ Failed(h, 1, TRUE)
    PROVE  KernelStep
<1>1. /\ Issue(1 + 1) /\ snapshots' = Snapshot /\ live' = h
      /\ last'.ok \/ last'.hint
  BY DEF Done, Failed, Guarded, Answer
<1>2. nextId \in Nat \ {0} /\ nextId + 1 + 1 \in Nat /\ nextId <= nextId + 1 + 1
      /\ nextId + 1 < nextId + 1 + 1
  BY DEF KernelInv, RegistryConsistent
<1>3. Issued(Id(1), nextId + 1 + 1) /\ Id(1)[2] = 0 /\ ~ Issued(Id(1), nextId)
  BY <1>2, IdIsFresh
<1>4. WellFormed(h, nextId + 1 + 1)
  BY <1>2, <1>3, OneSolid
<1> QED BY <1>1, <1>4, GuardedStep
-----------------------------------------------------------------------------
(* Who may be a parent: nobody, a solid, the parent of a shell. *)
LEMMA Parents ==
    ASSUME KernelInv, NEW id
    PROVE  /\ MayBeParent(None, live, nextId)
           /\ id \in Solids => MayBeParent(id, live, nextId)
           /\ id \in Shells => MayBeParent(live.shells[id].parent, live, nextId)
           /\ id \in Parts  => MayBeParent(ParentFor(live, id), live, nextId)
<1>1. WellFormed(live, nextId)
  BY DEF KernelInv, RegistryConsistent
<1>2. id \in Solids => MayBeParent(id, live, nextId)
  BY <1>1 DEF WellFormed, MayBeParent, Solids
<1>3. id \in Shells => MayBeParent(live.shells[id].parent, live, nextId)
  BY <1>1 DEF WellFormed, MayBeParent, Shells
<1> QED BY <1>2, <1>3 DEF MayBeParent, Parts, Bodies, ParentFor, Solids, Shells

(* A body replaced, then traced. *)
LEMMA ReplacedStep ==
    ASSUME KernelInv, NEW id \in Parts, NEW shape, ReplacedThenTraced(id, shape)
    PROVE  KernelStep
BY ReshapedStep DEF ReplacedThenTraced

(* loadStep and healGeometry: one solid more, without a snapshot. *)
LEMMA UnguardedSolidStep ==
    ASSUME KernelInv, NEW shape, Unguarded(WithSolid(live, Id(0), shape), 1, TRUE)
    PROVE  KernelStep
<1>1. /\ Issue(1) /\ snapshots' = snapshots
      /\ live' = WithSolid(live, Id(0), shape) /\ last'.ok
  BY DEF Unguarded, Answer
<1>2. nextId \in Nat \ {0} /\ nextId + 1 \in Nat /\ nextId <= nextId + 1
      /\ nextId + 0 < nextId + 1 /\ WellFormed(live, nextId)
  BY DEF KernelInv, RegistryConsistent
<1>3. Issued(Id(0), nextId + 1) /\ Id(0)[2] = 0 /\ ~ Issued(Id(0), nextId)
  BY <1>2, IdIsFresh
<1>4. WellFormed(live', nextId + 1)
  BY <1>1, <1>2, <1>3, OneSolid
<1> QED BY <1>1, <1>4, UnguardedStep

(* Several shells more, without a snapshot. *)
LEMMA UnguardedShellsStep ==
    ASSUME KernelInv, NEW n \in Nat, NEW p, MayBeParent(p, live, nextId), NEW shape,
           NEW ok, Unguarded(WithShells(live, 0, n, p, shape), n, ok)
    PROVE  KernelStep
<1>1. /\ Issue(n) /\ snapshots' = snapshots
      /\ live' = WithShells(live, 0, n, p, shape)
  BY DEF Unguarded
<1>2. nextId \in Nat \ {0} /\ nextId + 0 + n = nextId + n /\ WellFormed(live, nextId)
  BY DEF KernelInv, RegistryConsistent
<1>3. WellFormed(live', nextId + 0 + n) /\ Kept(live, live')
  BY <1>1, <1>2, FreshShells
<1>4. WellFormed(live', nextId + n)
  BY <1>2, <1>3
<1> QED BY <1>1, <1>3, <1>4, UnguardedStep

(* One shell more, without a snapshot. *)
LEMMA UnguardedShellStep ==
    ASSUME KernelInv, NEW p, MayBeParent(p, live, nextId), NEW shape,
           Unguarded(WithShell(live, Id(0), p, shape), 1, TRUE)
    PROVE  KernelStep
<1>1. /\ Issue(1) /\ snapshots' = snapshots
      /\ live' = WithShell(live, Id(0), p, shape) /\ last'.ok
  BY DEF Unguarded, Answer
<1>2. nextId \in Nat \ {0} /\ nextId + 1 \in Nat /\ nextId <= nextId + 1
      /\ nextId + 0 < nextId + 1 /\ WellFormed(live, nextId)
  BY DEF KernelInv, RegistryConsistent
<1>3. Fresh(Id(0), live, nextId, nextId + 1)
  BY <1>2, IdIsFresh
<1> PICK x : x = Id(0)
  OBVIOUS
<1>4. WellFormed(live', nextId + 1)
  BY <1>1, <1>2, <1>3, OneShell
<1> QED BY <1>1, <1>4, UnguardedStep

(* The shape is replaced without a snapshot, and the call succeeds. *)
LEMMA CenterStep ==
    ASSUME KernelInv, NEW id, NEW shape, NEW t, centerAndAlignBody(id, shape, t)
    PROVE  KernelStep
<1>1. CASE Refused
  BY <1>1, RefusedStep
<1>2. ASSUME id \in Parts, live' = Reshaped(live, id, shape), last'.ok,
             snapshots' = snapshots, nextId' = nextId
      PROVE  KernelStep
  <2>1. nextId \in Nat /\ WellFormed(live, nextId)
    BY DEF KernelInv, RegistryConsistent
  <2>2. WellFormed(live', nextId)
    BY <1>2, <2>1, OtherShape DEF Parts
  <2> QED BY <1>2, <2>1, <2>2 DEF KernelStep
<1> QED BY <1>1, <1>2 DEF centerAndAlignBody, Answer

(* A transform: the original stays or goes, and its image is registered. *)
LEMMA TransformStep ==
    ASSUME KernelInv, NEW id, NEW shape, NEW keep, Transform(id, shape, keep)
    PROVE  KernelStep
<1>1. CASE Refused
  BY <1>1, RefusedStep
<1>2. CASE NotDone
  BY <1>2, NotDoneStep
<1>3. ASSUME Done(Result(IF keep THEN live ELSE Erased(live, id), id, shape), 1)
      PROVE  KernelStep
  <2> PICK g : g = IF keep THEN live ELSE Erased(live, id)
    OBVIOUS
  <2> PICK h : h = Result(g, id, shape)
    OBVIOUS
  <2>1. nextId \in Nat /\ WellFormed(live, nextId)
    BY DEF KernelInv, RegistryConsistent
  <2>2. WellFormed(g, nextId)
    <3>1. CASE g = live
      BY <3>1, <2>1
    <3>2. ASSUME g = Erased(live, id) PROVE WellFormed(g, nextId)
      BY <3>2, <2>1, FewerBodies DEF Erased
    <3> QED BY <3>1, <3>2
  <2>3. Done(h, 1)
    BY <1>3
  <2>4. CASE id \in Shells
    <3>1. h = WithShell(g, Id(1), None, shape) /\ MayBeParent(None, g, nextId)
      BY <2>4 DEF Result, MayBeParent
    <3> QED BY <2>2, <2>3, <3>1, ShellStep
  <2>5. CASE id \notin Shells
    <3>1. h = WithSolid(g, Id(1), shape)
      BY <2>5 DEF Result
    <3> QED BY <2>2, <2>3, <3>1, SolidStep
  <2> QED BY <2>4, <2>5
<1> QED BY <1>1, <1>2, <1>3 DEF Transform

(* An operation on a body in place. *)
LEMMA InPlaceStep ==
    ASSUME KernelInv, NEW id, NEW shape, InPlace(id, shape)
    PROVE  KernelStep
<1>1. CASE Refused
  BY <1>1, RefusedStep
<1>2. CASE NotDone
  BY <1>2, NotDoneStep
<1>3. CASE id \in Parts /\ ReplacedThenTraced(id, shape)
  BY <1>3, ReplacedStep
<1> QED BY <1>1, <1>2, <1>3 DEF InPlace
-----------------------------------------------------------------------------
(* The bodies that are left are well-formed. *)
LEMMA LiveIsWellFormed ==
    ASSUME KernelInv PROVE nextId \in Nat /\ WellFormed(live, nextId)
BY DEF KernelInv, RegistryConsistent

(* separateSolids. *)
LEMMA SeparateStep ==
    ASSUME KernelInv, NEW id, NEW n \in Nat, NEW shape, separateSolids(id, n, shape)
    PROVE  KernelStep
<1>1. CASE Refused
  BY <1>1, RefusedStep
<1>2. ASSUME id \in Solids, Unguarded(WithShells(live, 0, n, id, shape), n, TRUE)
      PROVE  KernelStep
  BY <1>2, Parents, UnguardedShellsStep
<1> QED BY <1>1, <1>2 DEF separateSolids

(* booleanCut. *)
LEMMA BooleanCutStep ==
    ASSUME KernelInv, NEW id, NEW n \in Nat, NEW shape, booleanCut(id, n, shape)
    PROVE  KernelStep
<1>1. CASE Refused
  BY <1>1, RefusedStep
<1>2. CASE NotDone \/ Failed(live, 0, FALSE)
  BY <1>2, NotDoneStep
<1>3. ASSUME id \in Solids,
             \/ Done(WithShells(live, 1, n, id, shape), n)
             \/ Failed(WithShells(live, 1, n, id, shape), n, TRUE)
      PROVE  KernelStep
  <2> PICK g : g = live
    OBVIOUS
  <2>1. WellFormed(g, nextId) /\ MayBeParent(id, g, nextId)
    BY <1>3, Parents, LiveIsWellFormed
  <2>2. \/ Done(WithShells(g, 1, n, id, shape), n)
        \/ Failed(WithShells(g, 1, n, id, shape), n, TRUE)
    BY <1>3
  <2> QED BY <2>1, <2>2, ShellsStep
<1> QED BY <1>1, <1>2, <1>3 DEF booleanCut

(* deleteFace: the body goes and its pieces come. *)
LEMMA DeleteFaceStep ==
    ASSUME KernelInv, NEW id, NEW n \in Nat, NEW shape, deleteFace(id, n, shape)
    PROVE  KernelStep
<1>1. CASE Refused
  BY <1>1, RefusedStep
<1>2. CASE NotDone
  BY <1>2, NotDoneStep
<1>3. ASSUME Done(WithShells(Erased(live, id), 1, n, None, shape), n)
      PROVE  KernelStep
  <2> PICK g : g = Erased(live, id)
    OBVIOUS
  <2>1. WellFormed(g, nextId)
    BY LiveIsWellFormed, FewerBodies DEF Erased
  <2>2. Done(WithShells(g, 1, n, None, shape), n)
    BY <1>3
  <2> QED BY <2>1, <2>2, ShellsStep DEF MayBeParent
<1> QED BY <1>1, <1>2, <1>3 DEF deleteFace

(* One shell takes the place of several: cutBodies and intersectBodies. *)
LEMMA ShellForShells ==
    ASSUME KernelInv, NEW S, NEW shape,
           Done(WithShell([live EXCEPT !.shells = Drop(@, S)], Id(1), None, shape), 1)
    PROVE  KernelStep
<1> PICK g : g = [live EXCEPT !.shells = Drop(@, S)]
  OBVIOUS
<1> PICK h : h = WithShell(g, Id(1), None, shape)
  OBVIOUS
<1>1. WellFormed(g, nextId)
  BY LiveIsWellFormed, FewerBodies
<1>2. Done(h, 1)
  OBVIOUS
<1> QED BY <1>1, <1>2, ShellStep DEF MayBeParent

(* cutBodies. *)
LEMMA CutBodiesStep ==
    ASSUME KernelInv, NEW id, NEW tools, NEW keep, NEW shape,
           cutBodies(id, tools, keep, shape)
    PROVE  KernelStep
<1>1. CASE Refused
  BY <1>1, RefusedStep
<1>2. CASE NotDone
  BY <1>2, NotDoneStep
<1>3. ASSUME Done(WithShell([live EXCEPT !.shells =
                     Drop(@, {id} \cup (IF keep THEN {} ELSE tools))],
                  Id(1), None, shape), 1)
      PROVE  KernelStep
  BY <1>3, ShellForShells
<1> QED BY <1>1, <1>2, <1>3 DEF cutBodies

(* intersectBodies. *)
LEMMA IntersectStep ==
    ASSUME KernelInv, NEW a, NEW b, NEW shape, intersectBodies(a, b, shape)
    PROVE  KernelStep
<1>1. CASE Refused
  BY <1>1, RefusedStep
<1>2. CASE NotDone
  BY <1>2, NotDoneStep
<1>3. ASSUME Done(WithShell([live EXCEPT !.shells = Drop(@, {a, b})],
                  Id(1), None, shape), 1)
      PROVE  KernelStep
  BY <1>3, ShellForShells
<1> QED BY <1>1, <1>2, <1>3 DEF intersectBodies

(* Cutting. *)
LEMMA CutsStep == ASSUME KernelInv, Cuts PROVE KernelStep
<1> PICK id \in Ids, shape \in Shape :
        \/ \E n \in 0 .. MaxPieces : booleanCut(id, n, shape)
        \/ \E n \in 0 .. MaxPieces : separateSolids(id, n, shape)
        \/ \E n \in 0 .. MaxPieces : deleteFace(id, n, shape)
        \/ \E keep \in BOOLEAN, tools \in SUBSET Shells : cutBodies(id, tools, keep, shape)
        \/ \E b \in Ids : intersectBodies(id, b, shape)
  BY DEF Cuts
<1>1. 0 .. MaxPieces \subseteq Nat
  OBVIOUS
<1>2. ASSUME NEW n \in 0 .. MaxPieces,
             booleanCut(id, n, shape) \/ separateSolids(id, n, shape) \/ deleteFace(id, n, shape)
      PROVE  KernelStep
  BY <1>1, <1>2, BooleanCutStep, SeparateStep, DeleteFaceStep
<1>3. ASSUME NEW keep \in BOOLEAN, NEW tools \in SUBSET Shells,
             cutBodies(id, tools, keep, shape)
      PROVE  KernelStep
  BY <1>3, CutBodiesStep
<1>4. ASSUME NEW b \in Ids, intersectBodies(id, b, shape) PROVE KernelStep
  BY <1>4, IntersectStep
<1> QED BY <1>2, <1>3, <1>4

(* alignToFace claims a rollback that nothing needs. *)
LEMMA AlignStep ==
    ASSUME KernelInv, NEW id, NEW shape, NEW keep, alignToFace(id, shape, keep)
    PROVE  KernelStep
<1>1. CASE Refused
  BY <1>1, RefusedStep
<1>2. CASE UNCHANGED <<live, docs, snapshots, nextId>>
  BY <1>2, NothingChanged
<1>3. CASE Transform(id, shape, keep)
  BY <1>3, TransformStep
<1> QED BY <1>1, <1>2, <1>3 DEF alignToFace

(* Moving, turning, mirroring, scaling, aligning. *)
LEMMA TransformsStep == ASSUME KernelInv, Transforms PROVE KernelStep
<1> PICK id \in Ids, shape \in Shape, keep \in BOOLEAN :
        \/ translateBody(id, shape, keep)
        \/ rotateBody(id, shape, keep)
        \/ mirrorBody(id, shape, keep)
        \/ \E positive \in BOOLEAN : scaleBody(id, shape, keep, positive)
        \/ alignToFace(id, shape, keep)
  BY DEF Transforms
<1>1. CASE Refused
  BY <1>1, RefusedStep
<1>2. CASE Transform(id, shape, keep)
  BY <1>2, TransformStep
<1>3. CASE alignToFace(id, shape, keep)
  BY <1>3, AlignStep
<1> QED BY <1>1, <1>2, <1>3 DEF translateBody, rotateBody, mirrorBody, scaleBody
-----------------------------------------------------------------------------
(* closeGap. *)
LEMMA CloseGapStep ==
    ASSUME KernelInv, NEW a, NEW b, NEW shape, closeGap(a, b, shape)
    PROVE  KernelStep
<1>1. CASE Refused
  BY <1>1, RefusedStep
<1>2. CASE Done(live, 0)
  BY <1>2, NotDoneStep
<1>3. CASE b \in Parts /\ Done(Reshaped(live, b, shape), 0)
  BY <1>3, ReshapedStep
<1> QED BY <1>1, <1>2, <1>3 DEF closeGap, Shells, Parts, Bodies

(* extendFaceToTarget. *)
LEMMA ExtendStep ==
    ASSUME KernelInv, NEW id, NEW k, NEW b, NEW shape,
           extendFaceToTarget(id, k, b, shape)
    PROVE  KernelStep
<1>1. CASE Refused
  BY <1>1, RefusedStep
<1>2. CASE NotDone \/ Failed(live, 0, FALSE) \/ Done(live, 0)
  BY <1>2, NotDoneStep
<1>3. CASE id \in Parts /\ ReplacedThenTraced(id, shape)
  BY <1>3, ReplacedStep
<1> QED BY <1>1, <1>2, <1>3 DEF extendFaceToTarget, Shells, Parts, Bodies

(* offsetFace, addFlange and ripEdge. *)
LEMMA FaceStep ==
    ASSUME KernelInv, NEW id, NEW flag, NEW shape,
           offsetFace(id, flag, shape) \/ addFlange(id, flag, shape) \/ ripEdge(id, shape)
    PROVE  KernelStep
<1>1. CASE Refused
  BY <1>1, RefusedStep
<1>2. CASE NotDone \/ Failed(live, 0, FALSE)
  BY <1>2, NotDoneStep
<1>3. CASE id \in Parts /\ (\/ Done(Reshaped(live, id, shape), 0)
                            \/ Done(Reshaped(live, id, shape), 1))
  BY <1>3, ReshapedStep
<1> QED BY <1>1, <1>2, <1>3 DEF offsetFace, addFlange, ripEdge, Shells, Parts, Bodies

(* reconstructCurvedBends and trimBodyWithPlane. *)
LEMMA PartStep ==
    ASSUME KernelInv, NEW id, NEW shape,
           reconstructCurvedBends(id, shape) \/ trimBodyWithPlane(id, shape)
    PROVE  KernelStep
<1>1. CASE Refused
  BY <1>1, RefusedStep
<1>2. CASE NotDone \/ Failed(live, 0, FALSE) \/ Done(live, 0)
  BY <1>2, NotDoneStep
<1>3. CASE id \in Parts /\ Done(Reshaped(live, id, shape), 0)
  BY <1>3, ReshapedStep
<1>4. CASE id \in Parts /\ ReplacedThenTraced(id, shape)
  BY <1>4, ReplacedStep
<1> QED BY <1>1, <1>2, <1>3, <1>4 DEF reconstructCurvedBends, trimBodyWithPlane

(* healGeometry and loadStep. *)
LEMMA SolidMadeStep ==
    ASSUME KernelInv, NEW id, NEW shape, healGeometry(id, shape) \/ loadStep(shape)
    PROVE  KernelStep
<1>1. CASE Refused
  BY <1>1, RefusedStep
<1>2. CASE Unguarded(WithSolid(live, Id(0), shape), 1, TRUE)
  BY <1>2, UnguardedSolidStep
<1> QED BY <1>1, <1>2 DEF healGeometry, loadStep

(* Local modelling. *)
LEMMA EditsStep == ASSUME KernelInv, Edits PROVE KernelStep
<1> PICK id \in Ids, shape \in Shape :
        \/ filletEdges(id, shape)
        \/ chamferEdges(id, shape)
        \/ simplifyBody(id, shape)
        \/ healGeometry(id, shape)
        \/ healGeometryEx(id, shape)
        \/ offsetShape(id, shape)
        \/ \E b \in Ids : closeGap(id, b, shape)
        \/ \E b \in Ids, k \in {"plane", "face_id"} : extendFaceToTarget(id, k, b, shape)
        \/ \E zero \in BOOLEAN : offsetFace(id, zero, shape)
        \/ \E inRange \in BOOLEAN : addFlange(id, inRange, shape)
        \/ ripEdge(id, shape)
        \/ reconstructCurvedBends(id, shape)
        \/ trimBodyWithPlane(id, shape)
        \/ \E t \in DOMAIN snapshots \cup {None} : centerAndAlignBody(id, shape, t)
  BY DEF Edits
<1>1. CASE InPlace(id, shape)
  BY <1>1, InPlaceStep
<1>2. CASE healGeometry(id, shape)
  BY <1>2, SolidMadeStep
<1>3. ASSUME NEW b \in Ids, closeGap(id, b, shape) PROVE KernelStep
  BY <1>3, CloseGapStep
<1>4. ASSUME NEW b \in Ids, NEW k \in {"plane", "face_id"},
             extendFaceToTarget(id, k, b, shape)
      PROVE  KernelStep
  BY <1>4, ExtendStep
<1>5. ASSUME NEW flag \in BOOLEAN, offsetFace(id, flag, shape) \/ addFlange(id, flag, shape)
      PROVE  KernelStep
  BY <1>5, FaceStep
<1>6. CASE ripEdge(id, shape)
  BY <1>6, FaceStep
<1>7. CASE reconstructCurvedBends(id, shape) \/ trimBodyWithPlane(id, shape)
  BY <1>7, PartStep
<1>8. ASSUME NEW t \in DOMAIN snapshots \cup {None}, centerAndAlignBody(id, shape, t)
      PROVE  KernelStep
  BY <1>8, CenterStep
<1> QED BY <1>1, <1>2, <1>3, <1>4, <1>5, <1>6, <1>7, <1>8
        DEF filletEdges, chamferEdges, simplifyBody, healGeometryEx, offsetShape

(* sewFaces: the bodies sewn go, wherever they were, and the result comes. *)
LEMMA SewStep ==
    ASSUME KernelInv, NEW entities, NEW shape, NEW solid, sewFaces(entities, shape, solid)
    PROVE  KernelStep
<1>1. CASE NotDone \/ Failed(live, 0, FALSE)
  BY <1>1, NotDoneStep
<1>2. ASSUME NEW h, h = IF solid THEN WithSolid(Without(live, entities), Id(1), shape)
                          ELSE WithShell(Without(live, entities), Id(1), None, shape),
             Done(h, 1) \/ Failed(h, 1, TRUE)
      PROVE  KernelStep
  <2> PICK g : g = Without(live, entities)
    OBVIOUS
  <2>1. WellFormed(g, nextId)
    BY LiveIsWellFormed, FewerBodies DEF Without
  <2>2. Done(h, 1) \/ Failed(h, 1, TRUE)
    BY <1>2
  <2>3. CASE h = WithSolid(g, Id(1), shape)
    BY <2>1, <2>2, <2>3, SolidStep
  <2>4. CASE h = WithShell(g, Id(1), None, shape)
    BY <2>1, <2>2, <2>4, ShellStep DEF MayBeParent
  <2> QED BY <1>2, <2>3, <2>4
<1> QED BY <1>1, <1>2 DEF sewFaces

(* Importing and joining. *)
LEMMA JoinsStep == ASSUME KernelInv, Joins PROVE KernelStep
<1>1. ASSUME NEW shape \in Shape, loadStep(shape) PROVE KernelStep
  BY <1>1, SolidMadeStep
<1>2. ASSUME NEW shape \in Shape, NEW entities \in SUBSET Parts, NEW solid \in BOOLEAN,
             sewFaces(entities, shape, solid)
      PROVE  KernelStep
  BY <1>2, SewStep
<1>3. ASSUME NEW a, NEW b, addTabSlot(a, b) PROVE KernelStep
  BY <1>3, RefusedStep, NotDoneStep DEF addTabSlot
<1>4. ASSUME NEW a, addRivetHole(a) PROVE KernelStep
  BY <1>4, RefusedStep, NotDoneStep DEF addRivetHole
<1> QED BY <1>1, <1>2, <1>3, <1>4 DEF Joins
-----------------------------------------------------------------------------
(* One shell more next to those there are. *)
LEMMA OneMoreStep ==
    ASSUME KernelInv, NEW p, MayBeParent(p, live, nextId), NEW shape,
           \/ Done(WithShell(live, Id(1), p, shape), 1)
           \/ DoneNoToken(WithShell(live, Id(1), p, shape), 1)
           \/ Failed(WithShell(live, Id(1), p, shape), 1, TRUE)
    PROVE  KernelStep
<1> PICK g : g = live
  OBVIOUS
<1> PICK h : h = WithShell(g, Id(1), p, shape)
  OBVIOUS
<1>1. WellFormed(g, nextId) /\ MayBeParent(p, g, nextId)
  BY LiveIsWellFormed
<1>2. Done(h, 1) \/ DoneNoToken(h, 1) \/ Failed(h, 1, TRUE)
  OBVIOUS
<1> QED BY <1>1, <1>2, ShellStep

(* Several shells more next to those there are. *)
LEMMA SeveralMoreStep ==
    ASSUME KernelInv, NEW n \in Nat, NEW p, MayBeParent(p, live, nextId), NEW shape,
           \/ Done(WithShells(live, 1, n, p, shape), n)
           \/ Failed(WithShells(live, 1, n, p, shape), n, TRUE)
           \/ Failed(WithShells(live, 1, n, p, shape), n, FALSE)
    PROVE  KernelStep
<1> PICK g : g = live
  OBVIOUS
<1>1. WellFormed(g, nextId) /\ MayBeParent(p, g, nextId)
  BY LiveIsWellFormed
<1>2. \/ Done(WithShells(g, 1, n, p, shape), n)
      \/ Failed(WithShells(g, 1, n, p, shape), n, TRUE)
      \/ g = live /\ Failed(WithShells(g, 1, n, p, shape), n, FALSE)
  OBVIOUS
<1> QED BY <1>1, <1>2, ShellsStep

(* buildSheetFromDxf, buildShellFromFlatPattern and thickenSheet. *)
LEMMA SheetMadeStep ==
    ASSUME KernelInv, NEW id, NEW n \in Nat, NEW positive, NEW shape,
           \/ thickenSheet(id, positive, shape)
           \/ buildSheetFromDxf(shape)
           \/ buildShellFromFlatPattern(n, shape)
    PROVE  KernelStep
<1>1. CASE Refused
  BY <1>1, RefusedStep
<1>2. CASE /\ id \in Shells
           /\ Unguarded(WithShell(live, Id(0), live.shells[id].parent, shape), 1, TRUE)
  <2> PICK p : p = live.shells[id].parent
    OBVIOUS
  <2>1. MayBeParent(p, live, nextId)
    BY <1>2, Parents
  <2>2. Unguarded(WithShell(live, Id(0), p, shape), 1, TRUE)
    BY <1>2
  <2> QED BY <2>1, <2>2, UnguardedShellStep
<1>3. CASE Unguarded(WithShell(live, Id(0), None, shape), 1, TRUE)
  BY <1>3, UnguardedShellStep DEF MayBeParent
<1>4. ASSUME NEW ok, Unguarded(WithShells(live, 0, n, None, shape), n, ok)
      PROVE  KernelStep
  BY <1>4, UnguardedShellsStep DEF MayBeParent
<1> QED BY <1>1, <1>2, <1>3, <1>4
        DEF thickenSheet, buildSheetFromDxf, buildShellFromFlatPattern

(* addCornerRelief, mergeBodiesWithBend and applyBend. *)
LEMMA BendStep ==
    ASSUME KernelInv, NEW a, NEW b, NEW positive, NEW shape,
           \/ addCornerRelief(a, shape)
           \/ mergeBodiesWithBend(a, b, positive, shape)
           \/ applyBend(a, b, positive, shape)
    PROVE  KernelStep
<1>1. CASE Refused
  BY <1>1, RefusedStep
<1>2. CASE NotDone \/ Failed(live, 0, FALSE)
  BY <1>2, NotDoneStep
<1>3. CASE /\ a \in Shells
           /\ \/ Done(WithShell(live, Id(1), live.shells[a].parent, shape), 1)
              \/ DoneNoToken(WithShell(live, Id(1), live.shells[a].parent, shape), 1)
              \/ Failed(WithShell(live, Id(1), live.shells[a].parent, shape), 1, TRUE)
  <2> PICK p : p = live.shells[a].parent
    OBVIOUS
  <2>1. MayBeParent(p, live, nextId)
    BY <1>3, Parents
  <2>2. \/ Done(WithShell(live, Id(1), p, shape), 1)
        \/ DoneNoToken(WithShell(live, Id(1), p, shape), 1)
        \/ Failed(WithShell(live, Id(1), p, shape), 1, TRUE)
    BY <1>3
  <2> QED BY <2>1, <2>2, OneMoreStep
<1> QED BY <1>1, <1>2, <1>3 DEF addCornerRelief, mergeBodiesWithBend, applyBend

(* unfoldShell: the preview's id is the source's with one suffix more. *)
LEMMA UnfoldStep ==
    ASSUME KernelInv, NEW id, NEW shape, unfoldShell(id, shape)
    PROVE  KernelStep
<1>1. CASE Refused
  BY <1>1, RefusedStep
<1>2. CASE NotDone
  BY <1>2, NotDoneStep
<1>3. ASSUME NEW g, WellFormed(g, nextId), NEW i, Done(WithUnfold(g, Id(1), id, i), 1)
      PROVE  KernelStep
  <2>1. /\ Issue(1 + 1) /\ snapshots' = Snapshot /\ last'.ok
        /\ live' = WithUnfold(g, Id(1), id, i)
    BY <1>3 DEF Done, Guarded, Answer
  <2>2. live' = [g EXCEPT !.unfolds = Put(g.unfolds, Id(1), UnfoldState(id, i))]
    BY <2>1 DEF WithUnfold
  <2>3. nextId \in Nat /\ nextId + 1 + 1 \in Nat /\ nextId <= nextId + 1 + 1
    BY LiveIsWellFormed
  <2>4. WellFormed(live', nextId)
    BY <1>3, <2>2, <2>3, OtherRegistries
  <2>5. WellFormed(live', nextId + 1 + 1)
    BY <2>3, <2>4, MoreIds
  <2> QED BY <2>1, <2>5, GuardedStep
<1>4. CASE Done(WithUnfold(live, Id(1), id, None), 1)
  <2> PICK g : g = live
    OBVIOUS
  <2>1. WellFormed(g, nextId) /\ Done(WithUnfold(g, Id(1), id, None), 1)
    BY <1>4, LiveIsWellFormed
  <2> QED BY <2>1, <1>3
<1>5. CASE /\ id \in Shells
           /\ Done(WithUnfold(WithImproved(live, id, shape), Id(1), id, Improved(id)), 1)
  <2> PICK g : g = WithImproved(live, id, shape)
    OBVIOUS
  <2> PICK x : x = Improved(id)
    OBVIOUS
  <2>1. x[1] = id[1] /\ x[2] = id[2] + 1
    BY DEF Improved
  <2>2. Issued(id, nextId)
    BY <1>5, LiveIsWellFormed DEF WellFormed, Shells
  <2>3. Issued(x, nextId) /\ x[2] # 0
    BY <2>1, <2>2 DEF Issued
  <2>4. Fresh(x, live, nextId, nextId)
    BY <2>3, LiveIsWellFormed DEF Fresh, WellFormed
  <2>5. g = WithShell(live, x, None, shape)
    BY DEF WithImproved
  <2>6. MayBeParent(None, live, nextId) /\ nextId <= nextId
    BY LiveIsWellFormed DEF MayBeParent
  <2>7. WellFormed(g, nextId)
    BY <2>4, <2>5, <2>6, LiveIsWellFormed, OneShell
  <2>8. Done(WithUnfold(g, Id(1), id, x), 1)
    BY <1>5
  <2> QED BY <2>7, <2>8, <1>3
<1> QED BY <1>1, <1>2, <1>4, <1>5 DEF unfoldShell

(* nestShells only issues an id. *)
LEMMA NestStep ==
    ASSUME KernelInv, NEW ids, nestShells(ids) PROVE KernelStep
<1>1. CASE Refused
  BY <1>1, RefusedStep
<1>2. ASSUME Issue(1), live' = live, snapshots' = snapshots
      PROVE  KernelStep
  <2>1. nextId \in Nat /\ nextId + 1 \in Nat /\ nextId <= nextId + 1
    BY LiveIsWellFormed
  <2>2. WellFormed(live', nextId + 1)
    BY <1>2, <2>1, LiveIsWellFormed, MoreIds
  <2>3. Kept(live, live')
    BY <1>2 DEF Kept
  <2> QED BY <1>2, <2>2, <2>3, UnguardedStep
<1> QED BY <1>1, <1>2 DEF nestShells
-----------------------------------------------------------------------------
(* splitBodyByPlane and splitBodyByBends. *)
LEMMA SplitStep ==
    ASSUME KernelInv, NEW id, NEW n \in Nat, NEW negative, NEW shape,
           splitBodyByPlane(id, shape) \/ splitBodyByBends(id, negative, n, shape)
    PROVE  KernelStep
<1>1. CASE Refused
  BY <1>1, RefusedStep
<1>2. CASE NotDone \/ Failed(live, 0, FALSE)
  BY <1>2, NotDoneStep
<1>3. ASSUME NEW m \in Nat, NEW p, MayBeParent(p, live, nextId),
             \/ Done(WithShells(live, 1, m, p, shape), m)
             \/ Failed(WithShells(live, 1, m, p, shape), m, TRUE)
             \/ Failed(WithShells(live, 1, m, p, shape), m, FALSE)
      PROVE  KernelStep
  BY <1>3, SeveralMoreStep
<1>4. CASE /\ id \in Shells
           /\ \/ Done(WithShells(live, 1, 2, live.shells[id].parent, shape), 2)
              \/ Failed(WithShells(live, 1, 2, live.shells[id].parent, shape), 2, TRUE)
  <2> PICK p : p = live.shells[id].parent
    OBVIOUS
  <2>1. MayBeParent(p, live, nextId)
    BY <1>4, Parents
  <2>2. \/ Done(WithShells(live, 1, 2, p, shape), 2)
        \/ Failed(WithShells(live, 1, 2, p, shape), 2, TRUE)
    BY <1>4
  <2> QED BY <2>1, <2>2, <1>3
<1>5. CASE /\ id \in Parts
           /\ \/ Done(WithShells(live, 1, n, ParentFor(live, id), shape), n)
              \/ Failed(WithShells(live, 1, n, ParentFor(live, id), shape), n, TRUE)
              \/ Failed(WithShells(live, 1, n, ParentFor(live, id), shape), n, FALSE)
  <2> PICK p : p = ParentFor(live, id)
    OBVIOUS
  <2>1. MayBeParent(p, live, nextId)
    BY <1>5, Parents
  <2>2. \/ Done(WithShells(live, 1, n, p, shape), n)
        \/ Failed(WithShells(live, 1, n, p, shape), n, TRUE)
        \/ Failed(WithShells(live, 1, n, p, shape), n, FALSE)
    BY <1>5
  <2> QED BY <2>1, <2>2, <1>3
<1> QED BY <1>1, <1>2, <1>4, <1>5 DEF splitBodyByPlane, splitBodyByBends

(* Both forms of removeProtrusions: the protrusions become bodies, then    *)
(* the host loses them.                                                    *)
LEMMA ProtrusionsStep ==
    ASSUME KernelInv, NEW id, NEW n \in Nat, NEW shape,
           removeProtrusions(id, n, shape) \/ removeProtrusionsLegacy(id, n, shape)
    PROVE  KernelStep
<1>1. CASE Refused
  BY <1>1, RefusedStep
<1>2. ASSUME id \in Parts,
             \/ Failed(WithShells(live, 1, n, ParentFor(live, id), shape), n, FALSE)
             \/ Done(WithShells(live, 1, n, ParentFor(live, id), shape), n)
      PROVE  KernelStep
  <2> PICK p : p = ParentFor(live, id)
    OBVIOUS
  <2>1. MayBeParent(p, live, nextId)
    BY <1>2, Parents
  <2>2. \/ Done(WithShells(live, 1, n, p, shape), n)
        \/ Failed(WithShells(live, 1, n, p, shape), n, FALSE)
    BY <1>2
  <2> QED BY <2>1, <2>2, SeveralMoreStep
<1>3. ASSUME id \in Parts,
             Done(Reshaped(WithShells(live, 1, n, ParentFor(live, id), shape), id, shape), n)
      PROVE  KernelStep
  <2> PICK p : p = ParentFor(live, id)
    OBVIOUS
  <2> PICK g : g = live
    OBVIOUS
  <2> PICK h : h = WithShells(g, 1, n, p, shape)
    OBVIOUS
  <2>1. WellFormed(g, nextId) /\ MayBeParent(p, g, nextId) /\ nextId \in Nat \ {0}
    BY <1>3, Parents DEF KernelInv, RegistryConsistent
  <2>2. WellFormed(h, nextId + 1 + n) /\ Kept(g, h)
    BY <2>1, FreshShells
  <2>3. nextId + 1 + n \in Nat /\ nextId + 1 + n = nextId + n + 1
    BY <2>1
  <2>4. id \in Bodies(h)
    BY <1>3, <2>2 DEF Kept, Parts
  <2>5. /\ Issue(n + 1) /\ snapshots' = Snapshot /\ last'.ok
        /\ live' = Reshaped(h, id, shape)
    BY <1>3 DEF Done, Guarded, Answer
  <2>6. WellFormed(live', nextId + n + 1)
    BY <2>2, <2>3, <2>4, <2>5, OtherShape
  <2> QED BY <2>5, <2>6, GuardedStep
<1> QED BY <1>1, <1>2, <1>3 DEF removeProtrusions, removeProtrusionsLegacy

(* Sheet metal. *)
LEMMA SheetsStep == ASSUME KernelInv, Sheets PROVE KernelStep
<1>0. 0 .. MaxPieces \subseteq Nat
  OBVIOUS
<1>1. ASSUME NEW shape \in Shape, buildSheetFromDxf(shape) PROVE KernelStep
  BY <1>1, SheetMadeStep
<1>2. ASSUME NEW shape \in Shape, NEW n \in 0 .. MaxPieces,
             buildShellFromFlatPattern(n, shape)
      PROVE  KernelStep
  BY <1>0, <1>2, SheetMadeStep
<1>3. ASSUME NEW ids \in SUBSET (DOMAIN live.unfolds), nestShells(ids) PROVE KernelStep
  BY <1>3, NestStep
<1>4. ASSUME NEW id \in Ids, NEW shape \in Shape,
             \/ \E positive \in BOOLEAN : thickenSheet(id, positive, shape)
             \/ addCornerRelief(id, shape)
             \/ \E b \in Ids, positive \in BOOLEAN : mergeBodiesWithBend(id, b, positive, shape)
             \/ \E b \in Ids, positive \in BOOLEAN : applyBend(id, b, positive, shape)
             \/ unfoldShell(id, shape)
             \/ splitBodyByPlane(id, shape)
             \/ \E n \in 0 .. MaxPieces, negative \in BOOLEAN :
                    splitBodyByBends(id, negative, n, shape)
             \/ \E n \in 0 .. MaxPieces : removeProtrusions(id, n, shape)
             \/ \E n \in 0 .. MaxPieces : removeProtrusionsLegacy(id, n, shape)
      PROVE  KernelStep
  <2>1. ASSUME NEW positive \in BOOLEAN, thickenSheet(id, positive, shape)
        PROVE  KernelStep
    BY <2>1, SheetMadeStep
  <2>2. CASE addCornerRelief(id, shape)
    BY <2>2, BendStep
  <2>3. ASSUME NEW b \in Ids, NEW positive \in BOOLEAN,
               mergeBodiesWithBend(id, b, positive, shape) \/ applyBend(id, b, positive, shape)
        PROVE  KernelStep
    BY <2>3, BendStep
  <2>4. CASE unfoldShell(id, shape)
    BY <2>4, UnfoldStep
  <2>5. CASE splitBodyByPlane(id, shape)
    BY <2>5, SplitStep
  <2>6. ASSUME NEW n \in 0 .. MaxPieces, NEW negative \in BOOLEAN,
               splitBodyByBends(id, negative, n, shape)
        PROVE  KernelStep
    BY <1>0, <2>6, SplitStep
  <2>7. ASSUME NEW n \in 0 .. MaxPieces,
               removeProtrusions(id, n, shape) \/ removeProtrusionsLegacy(id, n, shape)
        PROVE  KernelStep
    BY <1>0, <2>7, ProtrusionsStep
  <2> QED BY <1>4, <2>1, <2>2, <2>3, <2>4, <2>5, <2>6, <2>7
<1> QED BY <1>1, <1>2, <1>3, <1>4 DEF Sheets

(* Queries. *)
LEMMA QueriesStep == ASSUME KernelInv, Queries PROVE KernelStep
<1>1. Refused \/ Answered
  BY DEF Queries, Query, getTopology, checkManifold, validateSheetMetal,
         measurePanelThickness, getPanelFrame, computeBoundingBox,
         computeMassProperties, exploreTopology, exportGlb, exportDxf,
         measureDistance, computeIntersections, checkAssemblyClashes, computeGaps
<1> QED BY <1>1, RefusedStep

(* A guarded call that changes nothing but the assemblies. *)
LEMMA AssembledStep ==
    ASSUME KernelInv, NEW a, NEW n \in Nat, Issue(n + 1), snapshots' = Snapshot,
           live' = [live EXCEPT !.assemblies = a], last'.ok
    PROVE  KernelStep
<1>1. nextId \in Nat /\ nextId + n + 1 \in Nat /\ nextId <= nextId + n + 1
  BY LiveIsWellFormed
<1>2. WellFormed(live', nextId)
  BY <1>1, LiveIsWellFormed, OtherRegistries
<1>3. WellFormed(live', nextId + n + 1)
  BY <1>1, <1>2, MoreIds
<1> QED BY <1>3, GuardedStep

(* Assemblies: the bodies stay as they are. *)
LEMMA AssemblyCallsStep == ASSUME KernelInv, AssemblyCalls PROVE KernelStep
<1>1. CASE Refused \/ Answered
  BY <1>1, RefusedStep
<1>2. CASE NotDone \/ Failed(live, 0, FALSE)
  BY <1>2, NotDoneStep
<1>3. ASSUME NEW answer, Guarded(live, 0, answer)
      PROVE  KernelStep
  BY <1>3, FailedStep DEF Guarded
<1>4. ASSUME createAssemblyDocument PROVE KernelStep
  <2>1. CASE Guarded([live EXCEPT !.assemblies = Put(@, Id(1), NoMap)], 1,
                     Answer(TRUE, FALSE, None))
    <3> PICK a : a = Put(live.assemblies, Id(1), NoMap)
      OBVIOUS
    <3>1. /\ live' = [live EXCEPT !.assemblies = a] /\ last'.ok
          /\ Issue(1 + 1) /\ snapshots' = Snapshot
      BY <2>1 DEF Guarded, Answer
    <3> QED BY <3>1, AssembledStep
  <2> QED BY <1>2, <1>4, <2>1 DEF createAssemblyDocument
<1>5. ASSUME NEW a, NEW b, NEW p, addAssemblyInstance(a, b, p) PROVE KernelStep
  <2>1. CASE Guarded([live EXCEPT !.assemblies[a] = Put(@, Id(1), Len(docs[a]) + 1)], 1,
                     Answer(TRUE, FALSE, None))
    <3> PICK f : f = [live.assemblies EXCEPT ![a] = Put(@, Id(1), Len(docs[a]) + 1)]
      OBVIOUS
    <3>1. /\ live' = [live EXCEPT !.assemblies = f] /\ last'.ok
          /\ Issue(1 + 1) /\ snapshots' = Snapshot
      BY <2>1 DEF Guarded, Answer
    <3> QED BY <3>1, AssembledStep
  <2> QED BY <1>1, <1>2, <1>3, <1>5, <2>1 DEF addAssemblyInstance
<1>6. ASSUME NEW a, NEW b, NEW p, NEW q, mateRigid(a, b, p, q) PROVE KernelStep
  <2>1. CASE \/ Guarded(live, 0, Answer(TRUE, FALSE, Id(0)))
             \/ Guarded(live, 0, Answer(FALSE, TRUE, None))
    <3>1. Issue(0 + 1) /\ snapshots' = Snapshot /\ live' = live
      BY <2>1 DEF Guarded
    <3> QED BY <3>1, FailedStep
  <2> QED BY <1>1, <1>2, <1>6, <2>1 DEF mateRigid
<1>7. ASSUME NEW a, listAssemblyTree(a) PROVE KernelStep
  BY <1>1, <1>7 DEF listAssemblyTree, Query
<1> QED BY <1>4, <1>5, <1>6, <1>7 DEF AssemblyCalls

(* Restoring, which leaves the tokens alone, and clearing. *)
LEMMA SnapshotsStep == ASSUME KernelInv, Snapshots PROVE KernelStep
<1>1. CASE CreateSnapshot
  BY <1>1, NotDoneStep DEF CreateSnapshot
<1>2. ASSUME NEW t, RestoreSnapshot(t) PROVE KernelStep
  <2>1. CASE t \in DOMAIN snapshots
    <3>1. /\ live' = Restored(snapshots[t]) /\ last'.ok
          /\ snapshots' = snapshots /\ nextId' = nextId
      BY <1>2, <2>1 DEF RestoreSnapshot, Answer
    <3>2. nextId \in Nat /\ WellFormed(snapshots[t], nextId)
      BY <2>1 DEF KernelInv, RegistryConsistent
    <3>3. Restored(snapshots[t]) = snapshots[t]
      BY <3>2 DEF Restored, WellFormed
    <3> QED BY <3>1, <3>2, <3>3 DEF KernelStep
  <2>2. CASE t \notin DOMAIN snapshots
    BY <1>2, <2>2, RefusedStep DEF RestoreSnapshot
  <2> QED BY <2>1, <2>2
<1>3. CASE ClearSnapshots
  BY <1>3, LiveIsWellFormed DEF ClearSnapshots, KernelStep, Answer
<1>4. CASE ClearState
  <2>1. WellFormed(live', nextId)
    BY <1>4, LiveIsWellFormed, NoBodies DEF ClearState
  <2> QED BY <1>4, <2>1, LiveIsWellFormed DEF ClearState, KernelStep, Answer
<1> QED BY <1>1, <1>2, <1>3, <1>4 DEF Snapshots
-----------------------------------------------------------------------------
(* Every operation is a step of the kind above. *)
LEMMA NextIsStep == ASSUME KernelInv, [Next]_vars PROVE KernelStep
<1>1. CASE UNCHANGED vars
  BY <1>1, NothingChanged DEF vars
<1> QED BY <1>1, CutsStep, TransformsStep, EditsStep, JoinsStep, SheetsStep,
           QueriesStep, AssemblyCallsStep, SnapshotsStep DEF Next

(* The invariant holds at first. *)
LEMMA InitKernelInv == ASSUME Init PROVE KernelInv
<1>1. WellFormed(EmptyState, 1)
  BY NoBodies
<1> QED BY <1>1 DEF Init, KernelInv, RegistryConsistent, NoMap

(* The registries and the issued ids, in every state. *)
LEMMA SpecKernelInv == Spec => []KernelInv
<1>1. KernelInv /\ [Next]_vars => KernelInv'
  BY NextIsStep, StepKeepsInv
<1> QED BY <1>1, InitKernelInv, PTL DEF Spec

(* No id ever names two bodies, and every token brings back registries in  *)
(* which none does (GeometryState and its snapshots).                      *)
THEOREM KernelRegistryConsistent == Spec => []RegistryConsistent
<1>1. KernelInv => RegistryConsistent
  BY DEF KernelInv
<1> QED BY <1>1, SpecKernelInv, PTL

(* A token stands for what was before the call that issued it, whatever is *)
(* done to the registries after (createSnapshot, restoreSnapshot).         *)
THEOREM KernelTokensKeepTheStateBefore == Spec => TokensKeepTheStateBefore
<1>1. KernelInv /\ [Next]_vars =>
         [\A t \in DOMAIN snapshots' :
             snapshots'[t] = IF t \in DOMAIN snapshots THEN snapshots[t] ELSE live]_vars
  BY NextIsStep, StepKeepsTokens
<1> QED BY <1>1, SpecKernelInv, PTL DEF Spec, TokensKeepTheStateBefore

(* A call that fails keeps the bodies, or says "rollback" and has taken a  *)
(* snapshot of them (GeometryError's suggestedAction).                     *)
THEOREM KernelFailedCallKeepsBodies == Spec => FailedCallKeepsBodies
<1>1. KernelInv /\ [Next]_vars =>
         [~ last'.ok =>
             \/ Kept(live, live')
             \/ last'.hint /\ \E t \in DOMAIN snapshots' : snapshots'[t] = live]_vars
  BY NextIsStep, StepFailsSafely
<1> QED BY <1>1, SpecKernelInv, PTL DEF Spec, FailedCallKeepsBodies
-----------------------------------------------------------------------------
(* The components an assembly lists are in its document, each one of its   *)
(* own, although a restore brings back an older list and leaves the        *)
(* document as it is: components are only ever appended to a document, and *)
(* a list never names one that is yet to come.                             *)

(* The four registries. *)
IsRegistries(g) ==
    g = [solids |-> g.solids, shells |-> g.shells,
         unfolds |-> g.unfolds, assemblies |-> g.assemblies]

(* A finite sequence, whatever its elements. *)
IsSeq(s) == s \in Seq({s[i] : i \in DOMAIN s})

(* The documents, when n is the next id. *)
Documents(d, n) == \A a \in DOMAIN d : Issued(a, n) /\ IsSeq(d[a])

(* Documents e have at least the components of d. *)
Grown(d, e) == \A a \in DOMAIN d : a \in DOMAIN e /\ DOMAIN d[a] \subseteq DOMAIN e[a]

(* The lists m of components lead into the documents d. *)
Resolves(m, d) ==
    \A a \in DOMAIN m :
        /\ a \in DOMAIN d
        /\ \A x, y \in DOMAIN m[a] :
              /\ m[a][x] \in DOMAIN d[a]
              /\ m[a][x] = m[a][y] => x = y

AssemblyInv ==
    /\ KernelInv
    /\ Documents(docs, nextId)
    /\ Resolves(live.assemblies, docs)
    /\ \A t \in DOMAIN snapshots : Resolves(snapshots[t].assemblies, docs)

(* What a step does to the documents and the lists. *)
DocumentStep ==
    /\ Documents(docs', nextId')
    /\ Grown(docs, docs')
    /\ Resolves(live'.assemblies, docs')

(* Appending to a sequence, and replacing one of its elements. *)
LEMMA Sequences ==
    ASSUME NEW s, IsSeq(s), NEW e
    PROVE  /\ Len(s) \in Nat /\ DOMAIN s = 1 .. Len(s)
           /\ IsSeq(Append(s, e))
           /\ Len(s) + 1 \notin DOMAIN s
           /\ DOMAIN Append(s, e) = DOMAIN s \cup {Len(s) + 1}
           /\ \A i \in DOMAIN s : /\ IsSeq([s EXCEPT ![i] = e])
                                  /\ DOMAIN [s EXCEPT ![i] = e] = DOMAIN s
<1> PICK S : S = {s[i] : i \in DOMAIN s} \cup {e}
  OBVIOUS
<1>1. s \in Seq(S) /\ e \in S
  BY DEF IsSeq
<1>2. \A q \in Seq(S) : IsSeq(q)
  <2> TAKE q \in Seq(S)
  <2>1. Len(q) \in Nat /\ DOMAIN q = 1 .. Len(q) /\ q = [i \in 1 .. Len(q) |-> q[i]]
    OBVIOUS
  <2> PICK n \in Nat : n = Len(q)
    BY <2>1
  <2> PICK T : T = {q[i] : i \in DOMAIN q}
    OBVIOUS
  <2>2. q \in [1 .. n -> T]
    BY <2>1
  <2>3. q \in Seq(T)
    BY <2>2
  <2> QED BY <2>3 DEF IsSeq
<1>3. Append(s, e) \in Seq(S)
  BY <1>1
<1>4. \A i \in DOMAIN s : [s EXCEPT ![i] = e] \in Seq(S)
  BY <1>1
<1>5. DOMAIN Append(s, e) = 1 .. Len(s) + 1
  BY <1>1
<1>6. Len(s) \in Nat /\ DOMAIN s = 1 .. Len(s)
  BY <1>1
<1>7. IsSeq(Append(s, e))
  BY <1>2, <1>3
<1>8. \A i \in DOMAIN s : IsSeq([s EXCEPT ![i] = e])
  BY <1>2, <1>4
<1>9. Len(s) + 1 \notin DOMAIN s /\ DOMAIN Append(s, e) = DOMAIN s \cup {Len(s) + 1}
  BY <1>5, <1>6
<1> QED BY <1>6, <1>7, <1>8, <1>9

(* Documents that grow keep what the lists lead to. *)
LEMMA GrownResolves ==
    ASSUME NEW m, NEW d, NEW e, Resolves(m, d), Grown(d, e)
    PROVE  Resolves(m, e)
BY DEF Resolves, Grown

(* Documents that stay as they are. *)
LEMMA SameDocuments ==
    ASSUME AssemblyInv, KernelStep, docs' = docs
    PROVE  Documents(docs', nextId') /\ Grown(docs, docs')
BY DEF AssemblyInv, KernelInv, RegistryConsistent, KernelStep, Documents, Grown, Issued

(* Neither the documents nor the lists change. *)
LEMMA SameLists ==
    ASSUME AssemblyInv, KernelStep, docs' = docs, live'.assemblies = live.assemblies
    PROVE  DocumentStep
<1>1. Resolves(live'.assemblies, docs')
  BY DEF AssemblyInv
<1> QED BY <1>1, SameDocuments DEF DocumentStep

(* A document with one component more, or one component placed elsewhere. *)
LEMMA OneDocumentGrows ==
    ASSUME AssemblyInv, KernelStep, NEW a \in DOMAIN docs, NEW s, IsSeq(s),
           DOMAIN docs[a] \subseteq DOMAIN s, docs' = [docs EXCEPT ![a] = s]
    PROVE  Documents(docs', nextId') /\ Grown(docs, docs') /\ docs'[a] = s
           /\ DOMAIN docs' = DOMAIN docs
<1>1. nextId \in Nat /\ nextId' \in Nat /\ nextId <= nextId'
  BY DEF AssemblyInv, KernelInv, RegistryConsistent, KernelStep
<1>2. DOMAIN docs' = DOMAIN docs
      /\ \A b \in DOMAIN docs : docs'[b] = IF b = a THEN s ELSE docs[b]
  OBVIOUS
<1>3. Documents(docs', nextId')
  BY <1>1, <1>2 DEF AssemblyInv, Documents, Issued
<1> QED BY <1>2, <1>3 DEF Grown

(* createAssemblyDocument: an empty document and an empty list. *)
LEMMA CreateStep ==
    ASSUME AssemblyInv, KernelStep, createAssemblyDocument
    PROVE  DocumentStep
<1>1. CASE NotDone
  BY <1>1, SameLists DEF NotDone, Failed, Guarded
<1>2. ASSUME Id(1) \notin DOMAIN docs, Issue(1 + 1), docs' = Put(docs, Id(1), <<>>),
             live' = [live EXCEPT !.assemblies = Put(@, Id(1), NoMap)]
      PROVE  DocumentStep
  <2> PICK x : x = Id(1)
    OBVIOUS
  <2>1. nextId \in Nat \ {0} /\ nextId' = nextId + 2 /\ WellFormed(live, nextId)
    BY <1>2 DEF AssemblyInv, KernelInv, RegistryConsistent, Issue
  <2>2. Issued(x, nextId')
    <3>1. x[1] = nextId + 1 /\ x[2] = 0
      BY DEF Id
    <3> QED BY <2>1, <3>1 DEF Issued
  <2>3. live'.assemblies = Put(live.assemblies, x, NoMap)
    BY <1>2, <2>1 DEF WellFormed
  <2>4. /\ DOMAIN docs' = DOMAIN docs \cup {x} /\ docs'[x] = <<>>
        /\ \A b \in DOMAIN docs : docs'[b] = docs[b]
    BY <1>2 DEF Put
  <2>5. IsSeq(<<>>)
    BY DEF IsSeq
  <2>6. Documents(docs', nextId')
    BY <2>1, <2>2, <2>4, <2>5 DEF AssemblyInv, Documents, Issued
  <2>7. Grown(docs, docs')
    BY <2>4 DEF Grown
  <2>8. Resolves(live.assemblies, docs')
    BY <2>7, GrownResolves DEF AssemblyInv
  <2>9. Resolves(live'.assemblies, docs')
    BY <2>3, <2>4, <2>8 DEF Resolves, Put, NoMap
  <2> QED BY <2>6, <2>7, <2>9 DEF DocumentStep
<1> QED BY <1>1, <1>2 DEF createAssemblyDocument, Guarded

(* addAssemblyInstance: the document grows first, the list after it. *)
LEMMA AddStep ==
    ASSUME AssemblyInv, KernelStep, NEW a, NEW target, NEW pose,
           addAssemblyInstance(a, target, pose)
    PROVE  DocumentStep
<1>1. CASE Refused
  BY <1>1, SameLists DEF Refused
<1>2. CASE NotDone
  BY <1>2, SameLists DEF NotDone, Failed, Guarded
<1>3. ASSUME a \in Assemblies, NEW e, docs' = [docs EXCEPT ![a] = Append(@, e)],
             \/ live' = live
             \/ live' = [live EXCEPT !.assemblies[a] = Put(@, Id(1), Len(docs[a]) + 1)]
      PROVE  DocumentStep
  <2>1. a \in DOMAIN docs /\ IsSeq(docs[a])
    BY <1>3 DEF AssemblyInv, Documents, Resolves, Assemblies
  <2> PICK r : r = docs[a]
    OBVIOUS
  <2> PICK s : s = Append(r, e)
    OBVIOUS
  <2>2. /\ IsSeq(s) /\ DOMAIN s = DOMAIN r \cup {Len(r) + 1} /\ Len(r) + 1 \notin DOMAIN r
    BY <2>1, Sequences
  <2>3. docs' = [docs EXCEPT ![a] = s]
    BY <1>3
  <2>4. Documents(docs', nextId') /\ Grown(docs, docs') /\ docs'[a] = s
    BY <2>1, <2>2, <2>3, OneDocumentGrows
  <2>5. Resolves(live.assemblies, docs')
    BY <2>4, GrownResolves DEF AssemblyInv
  <2>6. CASE live' = live
    BY <2>4, <2>5, <2>6 DEF DocumentStep
  <2>7. CASE live' = [live EXCEPT !.assemblies[a] = Put(@, Id(1), Len(docs[a]) + 1)]
    <3> PICK m : m = live.assemblies
      OBVIOUS
    <3> PICK k : k = Put(m[a], Id(1), Len(r) + 1)
      OBVIOUS
    <3>1. live'.assemblies = [m EXCEPT ![a] = k]
      BY <2>7 DEF AssemblyInv, KernelInv, RegistryConsistent, WellFormed
    <3>2. \A x \in DOMAIN m[a] : m[a][x] \in DOMAIN r
      BY <1>3 DEF AssemblyInv, Resolves, Assemblies
    <3>3. \A x, y \in DOMAIN m[a] : m[a][x] = m[a][y] => x = y
      BY <1>3 DEF AssemblyInv, Resolves, Assemblies
    <3>4. \A x \in DOMAIN k : \/ x = Id(1) /\ k[x] = Len(r) + 1
                              \/ x # Id(1) /\ x \in DOMAIN m[a] /\ k[x] = m[a][x]
      BY DEF Put
    <3>5. \A x, y \in DOMAIN k : k[x] \in DOMAIN s /\ (k[x] = k[y] => x = y)
      BY <2>2, <3>2, <3>3, <3>4
    <3>6. Resolves([m EXCEPT ![a] = k], docs')
      BY <2>4, <2>5, <3>5 DEF Resolves
    <3> QED BY <2>4, <3>1, <3>6 DEF DocumentStep
  <2> QED BY <1>3, <2>6, <2>7
<1>4. a \in Assemblies \/ Refused
  BY DEF addAssemblyInstance
<1> QED BY <1>1, <1>2, <1>3, <1>4 DEF addAssemblyInstance, Guarded

(* mateRigid: a component is placed elsewhere. *)
LEMMA MateStep ==
    ASSUME AssemblyInv, KernelStep, NEW a, NEW b, NEW p, NEW q, mateRigid(a, b, p, q)
    PROVE  DocumentStep
<1>1. CASE Refused
  BY <1>1, SameLists DEF Refused
<1>2. CASE NotDone \/ Failed(live, 0, FALSE)
  BY <1>2, SameLists DEF NotDone, Failed, Guarded
<1>3. ASSUME a \in Assemblies, NEW i \in Mated(a, b), live' = live,
             docs' = [docs EXCEPT ![a][i].pose = (SetTransformation(p, q) + @) % Turn]
      PROVE  DocumentStep
  <2>1. a \in DOMAIN docs /\ IsSeq(docs[a]) /\ i \in DOMAIN docs[a]
    BY <1>3 DEF AssemblyInv, Documents, Resolves, Assemblies, Mated
  <2> PICK r : r = docs[a]
    OBVIOUS
  <2> PICK e : e = [r[i] EXCEPT !.pose = (SetTransformation(p, q) + @) % Turn]
    OBVIOUS
  <2> PICK s : s = [r EXCEPT ![i] = e]
    OBVIOUS
  <2>2. IsSeq(s) /\ DOMAIN s = DOMAIN r
    BY <2>1, Sequences
  <2>3. docs' = [docs EXCEPT ![a] = s]
    BY <1>3
  <2>4. Documents(docs', nextId') /\ Grown(docs, docs')
    BY <2>1, <2>2, <2>3, OneDocumentGrows
  <2>5. Resolves(live.assemblies, docs')
    BY <2>4, GrownResolves DEF AssemblyInv
  <2> QED BY <1>3, <2>4, <2>5 DEF DocumentStep
<1> QED BY <1>1, <1>2, <1>3 DEF mateRigid, Guarded

(* Registries made from g that lead to the same documents. *)
Handles(g, h) == IsRegistries(h) /\ h.assemblies = g.assemblies

(* What the operations on bodies make of the registries leaves the         *)
(* assemblies alone.                                                       *)
LEMMA HandlesStay ==
    ASSUME NEW g, IsRegistries(g)
    PROVE  /\ Handles(g, g)
           /\ \A S : Handles(g, Without(g, S)) /\ Handles(g, [g EXCEPT !.shells = Drop(@, S)])
           /\ \A x, shape : /\ Handles(g, WithSolid(g, x, shape))
                            /\ Handles(g, Reshaped(g, x, shape))
                            /\ \A p : Handles(g, WithShell(g, x, p, shape))
           /\ \A first, n, p, shape : Handles(g, WithShells(g, first, n, p, shape))
           /\ \A x : Handles(g, Erased(g, x))
           /\ \A x, source, improved : Handles(g, WithUnfold(g, x, source, improved))
<1>1. \A k, h : h = [g EXCEPT !.solids = k] \/ h = [g EXCEPT !.shells = k]
                  \/ h = [g EXCEPT !.unfolds = k] => Handles(g, h)
  BY DEF IsRegistries, Handles
<1>2. ASSUME NEW j, NEW k PROVE Handles(g, [g EXCEPT !.solids = j, !.shells = k])
  <2> PICK h : h = [g EXCEPT !.solids = j, !.shells = k]
    OBVIOUS
  <2>1. h = [solids |-> j, shells |-> k, unfolds |-> g.unfolds, assemblies |-> g.assemblies]
    BY DEF IsRegistries
  <2> QED BY <2>1 DEF IsRegistries, Handles
<1>3. Handles(g, g)
  BY DEF IsRegistries, Handles
<1>4. ASSUME NEW S PROVE Handles(g, Without(g, S)) /\ Handles(g, [g EXCEPT !.shells = Drop(@, S)])
  BY <1>1, <1>2 DEF Without
<1>5. ASSUME NEW x, NEW shape
      PROVE  /\ Handles(g, WithSolid(g, x, shape))
             /\ \A p : Handles(g, WithShell(g, x, p, shape))
  BY <1>1 DEF WithSolid, WithShell
<1>6. ASSUME NEW x, NEW shape PROVE Handles(g, Reshaped(g, x, shape))
  BY DEF Reshaped, IsRegistries, Handles
<1>7. ASSUME NEW first, NEW n, NEW p, NEW shape
      PROVE  Handles(g, WithShells(g, first, n, p, shape))
  BY <1>1 DEF WithShells
<1>8. ASSUME NEW x PROVE Handles(g, Erased(g, x))
  BY <1>1 DEF Erased
<1>9. ASSUME NEW x, NEW source, NEW improved
      PROVE  Handles(g, WithUnfold(g, x, source, improved))
  BY <1>1 DEF WithUnfold
<1> QED BY <1>3, <1>4, <1>5, <1>6, <1>7, <1>8, <1>9

(* One change after another. *)
LEMMA HandlesStayOn ==
    ASSUME NEW g, NEW h, Handles(g, h)
    PROVE  /\ \A S : Handles(g, Without(h, S)) /\ Handles(g, [h EXCEPT !.shells = Drop(@, S)])
           /\ \A x, shape : /\ Handles(g, WithSolid(h, x, shape))
                            /\ Handles(g, Reshaped(h, x, shape))
                            /\ \A p : Handles(g, WithShell(h, x, p, shape))
           /\ \A first, n, p, shape : Handles(g, WithShells(h, first, n, p, shape))
           /\ \A x, source, improved : Handles(g, WithUnfold(h, x, source, improved))
<1>1. \A k : Handles(h, k) => Handles(g, k)
  BY DEF Handles
<1>2. IsRegistries(h)
  BY DEF Handles
<1> QED BY <1>1, <1>2, HandlesStay

(* A call that does no more than that. *)
HandlesStep == docs' = docs /\ Handles(live, live')

(* The forms in which an operation answers. *)
LEMMA AnswersKeepHandles ==
    ASSUME IsRegistries(live)
    PROVE  /\ Refused \/ Answered \/ NotDone => HandlesStep
           /\ \A g, n : Handles(live, g) =>
                 /\ Done(g, n) \/ DoneNoToken(g, n) => HandlesStep
                 /\ \A hint : Failed(g, n, hint) => HandlesStep
                 /\ \A ok : Unguarded(g, n, ok) => HandlesStep
           /\ \A id, shape : ReplacedThenTraced(id, shape) => HandlesStep
<1>1. Handles(live, live) /\ \A id, shape : Handles(live, Reshaped(live, id, shape))
  BY HandlesStay
<1>2. Refused \/ Answered \/ NotDone => HandlesStep
  BY <1>1 DEF Refused, Answered, NotDone, Failed, Guarded, HandlesStep
<1>3. ASSUME NEW g, NEW n, Handles(live, g)
      PROVE  /\ Done(g, n) \/ DoneNoToken(g, n) => HandlesStep
             /\ \A hint : Failed(g, n, hint) => HandlesStep
             /\ \A ok : Unguarded(g, n, ok) => HandlesStep
  BY <1>3 DEF Done, DoneNoToken, Failed, Unguarded, Guarded, HandlesStep
<1>4. ASSUME NEW id, NEW shape, ReplacedThenTraced(id, shape) PROVE HandlesStep
  BY <1>1, <1>3, <1>4 DEF ReplacedThenTraced
<1> QED BY <1>2, <1>3, <1>4

(* A restore brings back a list; the document it leads to is the present. *)
LEMMA RestoreStep ==
    ASSUME AssemblyInv, KernelStep, Snapshots
    PROVE  DocumentStep
<1>1. docs' = docs
  BY DEF Snapshots, CreateSnapshot, Done, RestoreSnapshot, Refused, ClearSnapshots, ClearState
<1>2. \/ live' = live \/ live' = EmptyState
      \/ \E t \in DOMAIN snapshots : live' = Restored(snapshots[t])
  BY DEF Snapshots, CreateSnapshot, Done, Guarded, RestoreSnapshot, Refused,
         ClearSnapshots, ClearState
<1>3. Resolves(live'.assemblies, docs)
  BY <1>2 DEF AssemblyInv, EmptyState, NoMap, Restored, Resolves
<1> QED BY <1>1, <1>3, SameDocuments DEF DocumentStep

(* Cuts and transforms. *)
LEMMA CutHandles ==
    ASSUME IsRegistries(live), Cuts \/ Transforms PROVE HandlesStep
<1>1. ASSUME NEW id, NEW n, NEW shape,
             booleanCut(id, n, shape) \/ separateSolids(id, n, shape)
      PROVE  HandlesStep
  BY <1>1, HandlesStay, AnswersKeepHandles DEF booleanCut, separateSolids
<1>2. ASSUME NEW id, NEW n, NEW shape, deleteFace(id, n, shape) PROVE HandlesStep
  <2>1. Handles(live, Erased(live, id))
    BY HandlesStay
  <2>2. Handles(live, WithShells(Erased(live, id), 1, n, None, shape))
    BY <2>1, HandlesStayOn
  <2> QED BY <1>2, <2>2, AnswersKeepHandles DEF deleteFace
<1>3. ASSUME NEW S, NEW shape,
             Done(WithShell([live EXCEPT !.shells = Drop(@, S)], Id(1), None, shape), 1)
      PROVE  HandlesStep
  <2> PICK g : g = [live EXCEPT !.shells = Drop(@, S)]
    OBVIOUS
  <2>1. Handles(live, g)
    BY HandlesStay
  <2>2. Handles(live, WithShell(g, Id(1), None, shape))
    BY <2>1, HandlesStayOn
  <2> QED BY <1>3, <2>2, AnswersKeepHandles
<1>4. ASSUME NEW a, NEW tools, NEW keep, NEW shape,
             cutBodies(a, tools, keep, shape) \/ \E b : intersectBodies(a, b, shape)
      PROVE  HandlesStep
  <2>1. CASE Refused \/ NotDone
    BY <2>1, AnswersKeepHandles
  <2>2. \/ Refused \/ NotDone
        \/ \E S : Done(WithShell([live EXCEPT !.shells = Drop(@, S)], Id(1), None, shape), 1)
    BY <1>4, Zenon DEF cutBodies, intersectBodies
  <2> QED BY <1>3, <2>1, <2>2
<1>5. ASSUME NEW id, NEW shape, NEW keep, Transform(id, shape, keep) PROVE HandlesStep
  <2> PICK g : g = IF keep THEN live ELSE Erased(live, id)
    OBVIOUS
  <2>1. Handles(live, g)
    BY HandlesStay
  <2>2. Handles(live, Result(g, id, shape))
    BY <2>1, HandlesStayOn DEF Result
  <2> QED BY <1>5, <2>2, AnswersKeepHandles DEF Transform
<1>6. ASSUME NEW id, NEW shape, NEW keep, alignToFace(id, shape, keep) PROVE HandlesStep
  <2>1. CASE docs' = docs /\ live' = live
    BY <2>1, HandlesStay DEF HandlesStep
  <2> QED BY <1>5, <1>6, <2>1, AnswersKeepHandles DEF alignToFace
<1>7. CASE Cuts
  BY <1>1, <1>2, <1>4, <1>7 DEF Cuts
<1>8. CASE Transforms
  BY <1>5, <1>6, <1>8, AnswersKeepHandles
     DEF Transforms, translateBody, rotateBody, mirrorBody, scaleBody
<1> QED BY <1>7, <1>8

(* Edits. *)
LEMMA EditHandles == ASSUME IsRegistries(live), Edits PROVE HandlesStep
<1>1. ASSUME NEW id, NEW shape, InPlace(id, shape) PROVE HandlesStep
  BY <1>1, AnswersKeepHandles DEF InPlace
<1>2. ASSUME NEW id, NEW shape, healGeometry(id, shape) PROVE HandlesStep
  BY <1>2, HandlesStay, AnswersKeepHandles DEF healGeometry
<1>3. ASSUME NEW id, NEW b, NEW shape, NEW t,
             closeGap(id, b, shape) \/ extendFaceToTarget(id, t, b, shape)
      PROVE  HandlesStep
  BY <1>3, HandlesStay, AnswersKeepHandles DEF closeGap, extendFaceToTarget
<1>4. ASSUME NEW id, NEW shape, NEW option,
             \/ offsetFace(id, option, shape) \/ addFlange(id, option, shape)
             \/ ripEdge(id, shape)
      PROVE  HandlesStep
  BY <1>4, HandlesStay, AnswersKeepHandles DEF offsetFace, addFlange, ripEdge
<1>5. ASSUME NEW id, NEW shape,
             reconstructCurvedBends(id, shape) \/ trimBodyWithPlane(id, shape)
      PROVE  HandlesStep
  BY <1>5, HandlesStay, AnswersKeepHandles DEF reconstructCurvedBends, trimBodyWithPlane
<1>6. ASSUME NEW id, NEW shape, NEW t, centerAndAlignBody(id, shape, t) PROVE HandlesStep
  BY <1>6, HandlesStay, AnswersKeepHandles DEF centerAndAlignBody, HandlesStep
<1> QED BY <1>1, <1>2, <1>3, <1>4, <1>5, <1>6
        DEF Edits, filletEdges, chamferEdges, simplifyBody, healGeometryEx, offsetShape

(* Imports and joins. *)
LEMMA JoinHandles == ASSUME IsRegistries(live), Joins PROVE HandlesStep
<1>1. ASSUME NEW shape, loadStep(shape) PROVE HandlesStep
  BY <1>1, HandlesStay, AnswersKeepHandles DEF loadStep
<1>2. ASSUME NEW shape, NEW entities, NEW solid, sewFaces(entities, shape, solid)
      PROVE  HandlesStep
  <2> PICK g : g = Without(live, entities)
    OBVIOUS
  <2>1. Handles(live, live) /\ Handles(live, g)
    BY HandlesStay
  <2>2. /\ Handles(live, WithSolid(g, Id(1), shape))
        /\ Handles(live, WithShell(g, Id(1), None, shape))
    BY <2>1, HandlesStayOn
  <2> QED BY <1>2, <2>1, <2>2, AnswersKeepHandles DEF sewFaces
<1>3. ASSUME NEW a, NEW b, addTabSlot(a, b) \/ addRivetHole(a) PROVE HandlesStep
  BY <1>3, HandlesStay, AnswersKeepHandles DEF addTabSlot, addRivetHole
<1> QED BY <1>1, <1>2, <1>3 DEF Joins

(* Sheet metal. *)
LEMMA SheetHandles == ASSUME IsRegistries(live), Sheets PROVE HandlesStep
<1>1. ASSUME NEW shape, NEW n,
             buildSheetFromDxf(shape) \/ buildShellFromFlatPattern(n, shape)
      PROVE  HandlesStep
  BY <1>1, HandlesStay, AnswersKeepHandles DEF buildSheetFromDxf, buildShellFromFlatPattern
<1>2. ASSUME NEW ids, nestShells(ids) PROVE HandlesStep
  BY <1>2, HandlesStay, AnswersKeepHandles DEF nestShells, HandlesStep
<1>3. ASSUME NEW id, NEW positive, NEW shape,
             thickenSheet(id, positive, shape) \/ addCornerRelief(id, shape)
      PROVE  HandlesStep
  BY <1>3, HandlesStay, AnswersKeepHandles DEF thickenSheet, addCornerRelief
<1>4. ASSUME NEW id, NEW b, NEW positive, NEW shape,
             mergeBodiesWithBend(id, b, positive, shape) \/ applyBend(id, b, positive, shape)
      PROVE  HandlesStep
  BY <1>4, HandlesStay, AnswersKeepHandles DEF mergeBodiesWithBend, applyBend
<1>5. ASSUME NEW id, NEW shape, unfoldShell(id, shape) PROVE HandlesStep
  <2> PICK g : g = WithImproved(live, id, shape)
    OBVIOUS
  <2>1. Handles(live, g) /\ Handles(live, WithUnfold(live, Id(1), id, None))
    BY HandlesStay DEF WithImproved
  <2>2. Handles(live, WithUnfold(g, Id(1), id, Improved(id)))
    BY <2>1, HandlesStayOn
  <2> QED BY <1>5, <2>1, <2>2, AnswersKeepHandles DEF unfoldShell
<1>6. ASSUME NEW id, NEW n, NEW negative, NEW shape,
             splitBodyByPlane(id, shape) \/ splitBodyByBends(id, negative, n, shape)
      PROVE  HandlesStep
  BY <1>6, HandlesStay, AnswersKeepHandles DEF splitBodyByPlane, splitBodyByBends
<1>7. ASSUME NEW id, NEW n, NEW shape,
             removeProtrusions(id, n, shape) \/ removeProtrusionsLegacy(id, n, shape)
      PROVE  HandlesStep
  <2> PICK g : g = WithShells(live, 1, n, ParentFor(live, id), shape)
    OBVIOUS
  <2>1. Handles(live, g)
    BY HandlesStay
  <2>2. Handles(live, Reshaped(g, id, shape))
    BY <2>1, HandlesStayOn
  <2> QED BY <1>7, <2>1, <2>2, AnswersKeepHandles DEF removeProtrusions, removeProtrusionsLegacy
<1> QED BY <1>1, <1>2, <1>3, <1>4, <1>5, <1>6, <1>7 DEF Sheets

(* Queries. *)
LEMMA QueryHandles == ASSUME IsRegistries(live), Queries PROVE HandlesStep
<1>1. Refused \/ Answered
  BY DEF Queries, Query, getTopology, checkManifold, validateSheetMetal,
         measurePanelThickness, getPanelFrame, computeBoundingBox,
         computeMassProperties, exploreTopology, exportGlb, exportDxf,
         measureDistance, computeIntersections, checkAssemblyClashes, computeGaps
<1> QED BY <1>1, AnswersKeepHandles

(* Every step of the kernel is of this kind. *)
LEMMA NextDocumentStep ==
    ASSUME AssemblyInv, [Next]_vars
    PROVE  KernelStep /\ DocumentStep
<1>1. KernelStep
  BY NextIsStep DEF AssemblyInv
<1>2. IsRegistries(live)
  BY DEF AssemblyInv, KernelInv, RegistryConsistent, WellFormed, IsRegistries
<1>3. CASE UNCHANGED vars
  BY <1>1, <1>3, SameLists DEF vars
<1>4. CASE HandlesStep
  BY <1>1, <1>4, SameLists DEF HandlesStep, Handles
<1>5. ASSUME NEW a, listAssemblyTree(a) PROVE DocumentStep
  BY <1>1, <1>5, SameLists DEF listAssemblyTree, Query, Refused, Answered
<1>6. CASE AssemblyCalls
  BY <1>1, <1>5, <1>6, CreateStep, AddStep, MateStep DEF AssemblyCalls
<1>7. CASE Snapshots
  BY <1>1, <1>7, RestoreStep
<1>8. CASE Cuts \/ Transforms \/ Edits \/ Joins \/ Sheets \/ Queries
  BY <1>2, <1>4, <1>8, CutHandles, EditHandles, JoinHandles, SheetHandles, QueryHandles
<1> QED BY <1>1, <1>3, <1>6, <1>7, <1>8 DEF Next

(* And such a step keeps the invariant. *)
LEMMA AssemblyInvStep ==
    ASSUME AssemblyInv, [Next]_vars
    PROVE  AssemblyInv'
<1>1. KernelStep /\ DocumentStep
  BY NextDocumentStep
<1>2. KernelInv'
  BY <1>1, StepKeepsInv DEF AssemblyInv
<1>3. ASSUME NEW t \in DOMAIN snapshots' PROVE Resolves(snapshots'[t].assemblies, docs')
  <2>1. snapshots'[t] = IF t \in DOMAIN snapshots THEN snapshots[t] ELSE live
    BY <1>1, StepKeepsTokens DEF AssemblyInv
  <2>2. \A u \in DOMAIN snapshots : Resolves(snapshots[u].assemblies, docs')
    BY <1>1, GrownResolves DEF AssemblyInv, DocumentStep
  <2>3. Resolves(live.assemblies, docs')
    BY <1>1, GrownResolves DEF AssemblyInv, DocumentStep
  <2> QED BY <2>1, <2>2, <2>3
<1> QED BY <1>1, <1>2, <1>3 DEF AssemblyInv, DocumentStep

(* After any calls, failures, restores and clears, every component an      *)
(* assembly lists is in its document, each one of its own                  *)
(* (addAssemblyInstance, mateRigid, restoreSnapshot).                      *)
THEOREM KernelComponentsResolve == Spec => []ComponentsResolve
<1>1. Init => AssemblyInv
  BY InitKernelInv DEF Init, AssemblyInv, Documents, Resolves, EmptyState, NoMap
<1>2. AssemblyInv /\ [Next]_vars => AssemblyInv'
  BY AssemblyInvStep
<1>3. AssemblyInv => ComponentsResolve
  <2> SUFFICES ASSUME AssemblyInv,
                      NEW g \in {live} \cup {snapshots[t] : t \in DOMAIN snapshots}
               PROVE  Resolves(g.assemblies, docs)
    BY DEF ComponentsResolve, Resolves
  <2> QED BY DEF AssemblyInv
<1> QED BY <1>1, <1>2, <1>3, PTL DEF Spec

(* A session about one assembly does what the kernel may do, so it has the *)
(* properties of the kernel (the session of the assembly tests).           *)
THEOREM AssemblySessionIsKernel == AssemblySpec => Spec
<1>1. ASSUME NEW shape \in Shape, loadStep(shape) PROVE Next
  BY <1>1 DEF Next, Joins
<1>2. ASSUME NEW id \in Ids, NEW shape \in Shape, offsetShape(id, shape) PROVE Next
  BY <1>2 DEF Next, Edits
<1>3. [AssemblyNext]_vars => [Next]_vars
  BY <1>1, <1>2 DEF AssemblyNext, Next
<1> QED BY <1>3, PTL DEF AssemblySpec, Spec
=============================================================================
