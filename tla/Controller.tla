------------------------------ MODULE Controller ------------------------------
(***************************************************************************)
(* The StagedBindingPolicy controller process: informers and their event   *)
(* handlers, the work queue, the workers that reconcile its items by       *)
(* calling the resolver, and the death and restart of the process.         *)
(***************************************************************************)
EXTENDS Resolver

CONSTANT Workers    \* the goroutines that run runWorker

VARIABLES
    sbpCache,   \* store behind stagedBindingPolicyLister
    bdgCache,   \* store behind bindingLister
    dirty,      \* items that are queued, or will be when their worker is done
    delayed,    \* items that wait for their rate-limited re-add
    worker,     \* what each worker does
    up,         \* the process runs
    panicked    \* the process has died of a panic

cacheVars == <<sbpCache, bdgCache, csCache>>
queueVars == <<dirty, delayed, worker>>
vars == <<wdsVars, resolverVars, cacheVars, queueVars, up, panicked>>

-----------------------------------------------------------------------------
\* Work items: stagedBindingPolicyRef, bindingRef and combinedStatusRef.  The
\* name of a CombinedStatus is made of the object and its BindingPolicy's UID.
PolicyRef(n) == <<"sbp", n>>
BindingRef(k) == <<"bdg", k>>
StatusRef(o, u) == <<"cs", <<o, u>>>>

Items == ({"sbp"} \X SBPs) \cup ({"bdg"} \X BPKeys) \cup ({"cs"} \X (Objects \X Uids))

ASSUME ControllerAssumption == None \notin Items

Snapshots == SBPObjects \cup BindingObjects \cup CombinedStatuses

Busy(pc, item, obj) == [pc |-> pc, item |-> item, obj |-> obj]

IdleWorker == Busy("idle", None, None)

TypeOK ==
    /\ WdsTypeOK
    /\ ResolverTypeOK
    /\ sbpCache \in [SBPs -> SBPObjects \cup {None}]
    /\ bdgCache \in [BPKeys -> BindingObjects \cup {None}]
    /\ dirty \in SUBSET Items
    /\ delayed \in SUBSET Items
    /\ worker \in [Workers -> [pc: {"idle", "dequeued", "read", "resolving"},
                               item: Items \cup {None}, obj: Snapshots \cup {None}]]
    /\ up \in BOOLEAN
    /\ panicked \in BOOLEAN

Init ==
    /\ WdsInit
    /\ ResolverStart
    /\ sbpCache = [n \in SBPs |-> None]
    /\ bdgCache = [k \in BPKeys |-> None]
    /\ csCache = {}
    /\ dirty = {}
    /\ delayed = {}
    /\ worker = [w \in Workers |-> IdleWorker]
    /\ up = TRUE
    /\ panicked = FALSE

-----------------------------------------------------------------------------
(* Informers.  A store follows the API server with a delay.  An object that *)
(* was deleted and made again is seen as a deletion first, unless a relist  *)
(* hides it; the handler then gets an update from the old to the new one.   *)

\* Mutants: a handler is missing.
NoAddFunc(old, new) == old # None /\ (new = None \/ old.gen # new.gen)

NoUpdateFunc(old, new) == old = None \/ new = None

NoDeleteFunc(old, new) == old = None \/ (new # None /\ old.gen # new.gen)

\* AddFunc, DeleteFunc and UpdateFunc: all but an update within a generation.
Enqueues(old, new) == old = None \/ new = None \/ old.gen # new.gen

Seen(old, new, replaced) ==
    IF replaced THEN {None} \cup (IF "relist" \in EventKinds THEN {new} ELSE {}) ELSE {new}

DeliverPolicy(n) ==
    LET old == sbpCache[n]
        replaced == old # None /\ sbp[n] # None /\ old.uid # sbp[n].uid
    IN  /\ up
        /\ old # sbp[n]
        /\ \E new \in Seen(old, sbp[n], replaced) :
             /\ IF replaced /\ new # None THEN Event("relist") ELSE UNCHANGED events
             /\ sbpCache' = [sbpCache EXCEPT ![n] = new]
             /\ dirty' = IF Enqueues(old, new) THEN dirty \cup {PolicyRef(n)} ELSE dirty
        /\ UNCHANGED <<sbp, bp, bdg, cs, objs, nextUid, resolverVars, bdgCache, csCache,
                       delayed, worker, up, panicked>>

DeliverBinding(k) ==
    LET old == bdgCache[k]
        replaced == old # None /\ bdg[k] # None /\ old.bp # bdg[k].bp
    IN  /\ up
        /\ old # bdg[k]
        /\ \E new \in Seen(old, bdg[k], replaced) :
             /\ IF replaced /\ new # None THEN Event("relist") ELSE UNCHANGED events
             /\ bdgCache' = [bdgCache EXCEPT ![k] = new]
             /\ dirty' = IF Enqueues(old, new) THEN dirty \cup {BindingRef(k)} ELSE dirty
        /\ UNCHANGED <<sbp, bp, bdg, cs, objs, nextUid, resolverVars, sbpCache, csCache,
                       delayed, worker, up, panicked>>

CachedReports(o, u) == {c \in csCache : c.obj = o /\ c.bp = u}

\* A CombinedStatus has no status subresource: every change is a generation.
DeliverStatus(o, u) ==
    /\ up
    /\ CachedReports(o, u) # Reports(o, u)
    /\ csCache' = (csCache \ CachedReports(o, u)) \cup Reports(o, u)
    /\ dirty' = dirty \cup {StatusRef(o, u)}
    /\ UNCHANGED <<wdsVars, resolverVars, sbpCache, bdgCache, delayed, worker, up, panicked>>

-----------------------------------------------------------------------------
(* The work queue and the workers.                                         *)

InProgress == {worker[w].item : w \in Workers} \ {None}

Get(w, item) ==
    /\ up
    /\ worker[w].pc = "idle"
    /\ item \in dirty \ InProgress
    /\ dirty' = dirty \ {item}
    /\ worker' = [worker EXCEPT ![w] = Busy("dequeued", item, None)]
    /\ UNCHANGED <<wdsVars, resolverVars, cacheVars, delayed, up, panicked>>

\* Get of the generated lister: the object under that key in the store.
GetFromStore(n) == sbpCache[n]

Lookup(item) ==
    IF item[1] = "sbp" THEN {GetFromStore(item[2])}
    ELSE IF item[1] = "bdg" THEN {bdgCache[item[2]]}
    ELSE CachedReports(item[2][1], item[2][2])

\* Only for a StagedBindingPolicy is a missing object of interest.
ReadLister(w) ==
    LET item == worker[w].item
        found == Lookup(item) \ {None}
        Read(obj) == worker' = [worker EXCEPT ![w] = Busy("read", item, obj)]
    IN  /\ worker[w].pc = "dequeued"
        /\ \/ /\ found = {} /\ item[1] # "sbp"
              /\ worker' = [worker EXCEPT ![w] = IdleWorker]
           \/ found = {} /\ item[1] = "sbp" /\ Read(None)
           \/ \E obj \in found : Read(obj)
        /\ UNCHANGED <<wdsVars, resolverVars, cacheVars, dirty, delayed, up, panicked>>

Reconcile(w) ==
    LET item == worker[w].item
        obj == worker[w].obj
    IN  /\ worker[w].pc = "read"
        /\ \/ item[1] = "sbp" /\ obj = None /\ DeleteStagedBindingPolicy(item[2])
           \/ item[1] = "sbp" /\ obj # None /\ NoteStagedBindingPolicy(item[2], obj)
           \/ item[1] = "bdg" /\ NoteBinding(item[2], obj)
           \/ item[1] = "cs" /\ NoteCombinedStatus(obj)
        /\ worker' = [worker EXCEPT ![w] = Busy("resolving", item, None)]
        /\ UNCHANGED <<wdsVars, cacheVars, dirty, delayed, up, panicked>>

Resolve ==
    /\ OpSteps
    /\ UNCHANGED <<cacheVars, queueVars, up, panicked>>

\* The operation returns and unlocks; AddRateLimited or Forget, then Done.
Finish(w) ==
    /\ worker[w].pc = "resolving"
    /\ At("return")
    /\ op' = None
    /\ delayed' = IF op.err THEN delayed \cup {worker[w].item} ELSE delayed
    /\ worker' = [worker EXCEPT ![w] = IdleWorker]
    /\ UNCHANGED <<wdsVars, stagedBindingPolicies, cacheVars, dirty, up, panicked>>

Requeue(item) ==
    /\ up
    /\ item \in delayed
    /\ delayed' = delayed \ {item}
    /\ dirty' = dirty \cup {item}
    /\ UNCHANGED <<wdsVars, resolverVars, cacheVars, worker, up, panicked>>

-----------------------------------------------------------------------------
(* Death and restart.                                                      *)

LoseMemory ==
    /\ up' = FALSE
    /\ stagedBindingPolicies' = [n \in SBPs |-> None]
    /\ op' = None
    /\ sbpCache' = [n \in SBPs |-> None]
    /\ bdgCache' = [k \in BPKeys |-> None]
    /\ csCache' = {}
    /\ dirty' = {}
    /\ delayed' = {}
    /\ worker' = [w \in Workers |-> IdleWorker]

Crash ==
    /\ up
    /\ Event("crash")
    /\ LoseMemory
    /\ UNCHANGED <<sbp, bp, bdg, cs, objs, nextUid, panicked>>

\* A panic in a worker is reported and raised again: the process exits.
Panic ==
    /\ Panics
    /\ LoseMemory
    /\ panicked' = TRUE
    /\ UNCHANGED wdsVars

\* Mutant: the policies are listed before their handler is added.
RestartMissesPolicies ==
    /\ ~up
    /\ up' = TRUE
    /\ sbpCache' = sbp
    /\ bdgCache' = bdg
    /\ csCache' = cs
    /\ dirty' = {BindingRef(k) : k \in {j \in BPKeys : bdg[j] # None}}
                \cup {StatusRef(c.obj, c.bp) : c \in cs}
    /\ UNCHANGED <<wdsVars, resolverVars, delayed, worker, panicked>>

\* The informers list what exists before the workers start.  Their handlers may
\* enqueue it later; then it counts here as an item no worker has taken yet.
Restart ==
    /\ ~up
    /\ up' = TRUE
    /\ sbpCache' = sbp
    /\ bdgCache' = bdg
    /\ csCache' = cs
    /\ dirty' = {PolicyRef(n) : n \in {m \in SBPs : sbp[m] # None}}
                \cup {BindingRef(k) : k \in {j \in BPKeys : bdg[j] # None}}
                \cup {StatusRef(c.obj, c.bp) : c \in cs}
    /\ UNCHANGED <<wdsVars, resolverVars, delayed, worker, panicked>>

-----------------------------------------------------------------------------
Environment ==
    /\ WdsNext
    /\ UNCHANGED <<resolverVars, cacheVars, queueVars, up, panicked>>

Informers ==
    \/ \E n \in SBPs : DeliverPolicy(n)
    \/ \E k \in BPKeys : DeliverBinding(k)
    \/ \E o \in Objects, u \in 1..(nextUid - 1) : DeliverStatus(o, u)

WorkerStep(w) ==
    \/ \E item \in dirty : Get(w, item)
    \/ ReadLister(w)
    \/ Reconcile(w)
    \/ Finish(w)

Next ==
    \/ Environment
    \/ Informers
    \/ \E w \in Workers : WorkerStep(w)
    \/ Resolve
    \/ \E item \in delayed : Requeue(item)
    \/ Crash
    \/ Panic
    \/ Restart

Spec == Init /\ [][Next]_vars
=============================================================================
