------------------------------ MODULE QueueProofs ------------------------------
(***************************************************************************)
(* Proofs about the way of an event through the informer's store, the work *)
(* queue and a worker into the resolver's table: once the queue is drained *)
(* the table holds the policies that exist, of each the last incarnation   *)
(* and spec, and each has been noted without an error.                     *)
(*                                                                         *)
(* What the handlers compare is the generation alone, so this takes a      *)
(* deletion to be seen as one: no relist hides that a policy was deleted   *)
(* and made again.                                                         *)
(***************************************************************************)
EXTENDS StepProofs

NoRelist == "relist" \notin EventKinds

-----------------------------------------------------------------------------
(* A UID is younger than all that exist when it is handed out, and a       *)
(* generation tells the specs of one incarnation apart.                    *)
UidUsed(x) == x # None => x.uid < nextUid

GenerationTells(n) ==
    sbp[n] # None /\ sbpCache[n] # None /\ sbp[n].uid = sbpCache[n].uid =>
        /\ sbpCache[n].gen <= sbp[n].gen
        /\ sbpCache[n].gen = sbp[n].gen => sbpCache[n].stages = sbp[n].stages

VersionsInv ==
    /\ \A n \in SBPs :
          /\ UidUsed(sbp[n]) /\ UidUsed(sbpCache[n]) /\ UidUsed(Tracked(n))
          /\ GenerationTells(n)
    /\ \A w \in Workers :
          worker[w].pc = "read" /\ worker[w].item[1] = "sbp" => UidUsed(worker[w].obj)

(* A process that is down has forgotten everything.                        *)
DownInv ==
    ~up => /\ op = None
           /\ dirty = {} /\ delayed = {}
           /\ \A n \in SBPs : Tracked(n) = None /\ sbpCache[n] = None
           /\ \A w \in Workers : worker[w].pc = "idle"

(* Objects, entries and what is None, up to the status and the like.       *)
SameVersion(x, y) ==
    \/ x = None /\ y = None
    \/ x # None /\ y # None /\ x.uid = y.uid /\ x.stages = y.stages

Holds(w, n) == worker[w].pc # "idle" /\ worker[w].item = PolicyRef(n)

(* The policy's item is queued; or the store has not changed since a       *)
(* worker read it, which is still to call the resolver or has done so.     *)
Followed(n) ==
    \/ PolicyRef(n) \in dirty
    \/ /\ \A w \in Workers :
             Holds(w, n) /\ worker[w].pc = "read" => SameVersion(worker[w].obj, sbpCache[n])
       /\ \/ \E w \in Workers : Holds(w, n) /\ worker[w].pc \in {"dequeued", "read"}
          \/ SameVersion(Tracked(n), sbpCache[n])

FollowInv == \A n \in SBPs : Followed(n)

-----------------------------------------------------------------------------
(* The status names a stage of the tracked list.                           *)
StatusNoted(n) ==
    Tracked(n) # None /\ sbp[n] # None /\ sbp[n].uid = Tracked(n).uid =>
        \E i \in 1..Len(Tracked(n).stages) : Tracked(n).stages[i].name = sbp[n].active

Noting(n) ==
    \/ PolicyRef(n) \in dirty \cup delayed
    \/ \E w \in Workers : Holds(w, n)

(* An operation that has deployed the active stage, or will not say that   *)
(* it failed to.                                                           *)
Succeeds == op.staging \/ op.pc = "attempt" \/ (op.pc = "return" /\ ~op.err)

(* The worker whose call is in progress holds the mutex.                   *)
MutexHeld ==
    /\ \A w, v \in Workers : worker[w].pc = "resolving" /\ worker[v].pc = "resolving" => w = v
    /\ \A w \in Workers : worker[w].pc = "resolving" => op # None

NotedInv ==
    /\ \A n \in SBPs : StatusNoted(n) \/ Noting(n)
    /\ MutexHeld
    /\ \A n \in SBPs, w \in Workers :
          Holds(w, n) /\ worker[w].pc = "resolving" => op.sbp = n /\ (Succeeds => StatusNoted(n))

QueueInv == VersionsInv /\ DownInv /\ FollowInv /\ NotedInv

-----------------------------------------------------------------------------
(* What each step of a worker does to it, and what a delivery does to the  *)
(* copy of a policy in the informer's store.                               *)
LEMMA GetParts ==
  ASSUME WorkersTyped, NEW w \in Workers, NEW item \in dirty, item # None, Get(w, item)
  PROVE  /\ worker[w].pc = "idle"
         /\ worker'[w].pc = "dequeued" /\ worker'[w].item = item
         /\ \A v \in Workers : worker[v].item # item
         /\ \A v \in Workers : v # w => worker'[v] = worker[v]
         /\ dirty' = dirty \ {item}
         /\ UNCHANGED <<wdsVars, resolverVars, cacheVars, delayed, up, panicked>>
  <1>1. /\ worker[w].pc = "idle" /\ item \notin InProgress /\ dirty' = dirty \ {item}
        /\ worker' = [worker EXCEPT ![w] = Busy("dequeued", item, None)]
        /\ UNCHANGED <<wdsVars, resolverVars, cacheVars, delayed, up, panicked>>
    BY DEF Get
  <1>2. \A v \in Workers : worker[v].item # item
    BY <1>1 DEF InProgress
  <1> QED
    BY <1>1, <1>2 DEF WorkersTyped, Busy

(* For a policy the lister gives what the store has, None included.        *)
LEMMA ReadListerParts ==
  ASSUME WorkersTyped, NEW w \in Workers, ReadLister(w)
  PROVE  /\ worker[w].pc = "dequeued" /\ worker[w].item \in Items
         /\ \A v \in Workers : v # w => worker'[v] = worker[v]
         /\ worker[w].item[1] # "sbp" =>
               worker'[w].pc = "idle" \/ (worker'[w].pc = "read" /\ worker'[w].item = worker[w].item)
         /\ worker[w].item[1] = "sbp" =>
               /\ worker'[w].pc = "read" /\ worker'[w].item = worker[w].item
               /\ worker'[w].obj = sbpCache[worker[w].item[2]]
         /\ UNCHANGED <<wdsVars, resolverVars, cacheVars, dirty, delayed, up, panicked>>
  <1> DEFINE item == worker[w].item
             found == Lookup(item) \ {None}
  <1>1. worker[w].pc = "dequeued" /\ item \in Items
    BY DEF ReadLister, WorkersTyped, WorkerOK
  <1>2. /\ \/ item[1] # "sbp" /\ worker' = [worker EXCEPT ![w] = IdleWorker]
           \/ found = {} /\ item[1] = "sbp" /\ worker' = [worker EXCEPT ![w] = Busy("read", item, None)]
           \/ \E obj \in found : worker' = [worker EXCEPT ![w] = Busy("read", item, obj)]
        /\ UNCHANGED <<wdsVars, resolverVars, cacheVars, dirty, delayed, up, panicked>>
    BY DEF ReadLister
  <1>3. item[1] = "sbp" => found = {sbpCache[item[2]]} \ {None}
    BY DEF Lookup, GetFromStore
  <1> HIDE DEF item, found
  <1>4. ASSUME worker' = [worker EXCEPT ![w] = IdleWorker]
        PROVE  worker'[w].pc = "idle" /\ \A v \in Workers : v # w => worker'[v] = worker[v]
    BY <1>4 DEF WorkersTyped, IdleWorker, Busy
  <1>5. ASSUME found = {}, item[1] = "sbp", worker' = [worker EXCEPT ![w] = Busy("read", item, None)]
        PROVE  /\ worker'[w].pc = "read" /\ worker'[w].item = item
               /\ worker'[w].obj = sbpCache[item[2]]
               /\ \A v \in Workers : v # w => worker'[v] = worker[v]
    BY <1>3, <1>5 DEF WorkersTyped, Busy
  <1>6. ASSUME NEW obj \in found, worker' = [worker EXCEPT ![w] = Busy("read", item, obj)]
        PROVE  /\ worker'[w].pc = "read" /\ worker'[w].item = item
               /\ item[1] = "sbp" => worker'[w].obj = sbpCache[item[2]]
               /\ \A v \in Workers : v # w => worker'[v] = worker[v]
    BY <1>3, <1>6 DEF WorkersTyped, Busy
  <1>7. /\ item[1] # "sbp" => worker'[w].pc = "idle" \/ (worker'[w].pc = "read" /\ worker'[w].item = item)
        /\ item[1] = "sbp" => /\ worker'[w].pc = "read" /\ worker'[w].item = item
                              /\ worker'[w].obj = sbpCache[item[2]]
        /\ \A v \in Workers : v # w => worker'[v] = worker[v]
    BY <1>2, <1>4, <1>5, <1>6
  <1> QED
    BY <1>1, <1>2, <1>7 DEF item

LEMMA ReconcileMoves ==
  ASSUME WorkersTyped, NEW w \in Workers, Reconcile(w)
  PROVE  /\ worker[w].pc = "read"
         /\ worker'[w].pc = "resolving" /\ worker'[w].item = worker[w].item
         /\ \A v \in Workers : v # w => worker'[v] = worker[v]
         /\ UNCHANGED <<wdsVars, cacheVars, dirty, delayed, up, panicked>>
  BY DEF WorkersTyped, Reconcile, Busy

LEMMA FinishMoves ==
  ASSUME WorkersTyped, NEW w \in Workers, Finish(w)
  PROVE  /\ worker[w].pc = "resolving" /\ worker'[w].pc = "idle"
         /\ \A v \in Workers : v # w => worker'[v] = worker[v]
         /\ op # None /\ op.pc = "return" /\ op' = None
         /\ delayed' = IF op.err THEN delayed \cup {worker[w].item} ELSE delayed
         /\ UNCHANGED <<wdsVars, stagedBindingPolicies, cacheVars, dirty, up, panicked>>
  BY DEF WorkersTyped, Finish, At, IdleWorker, Busy

LEMMA LoseMemoryParts ==
  ASSUME LoseMemory
  PROVE  /\ ~up' /\ op' = None /\ dirty' = {} /\ delayed' = {}
         /\ \A n \in SBPs : Tracked(n)' = None /\ sbpCache'[n] = None
         /\ \A w \in Workers : worker'[w].pc = "idle"
  BY DEF LoseMemory, Tracked, IdleWorker, Busy

(* A policy's event is queued unless only the policy's status has changed. *)
LEMMA DeliverPolicyParts ==
  ASSUME NoRelist, TypeInv, VersionsInv, NEW m \in SBPs, DeliverPolicy(m)
  PROVE  /\ up
         /\ \A n \in SBPs : n # m => sbpCache'[n] = sbpCache[n]
         /\ sbpCache'[m] \in {None, sbp[m]}
         /\ PolicyRef(m) \in dirty' \/ SameVersion(sbpCache[m], sbpCache'[m])
         /\ dirty \subseteq dirty'
         /\ UNCHANGED <<sbp, bp, bdg, cs, objs, nextUid, resolverVars, delayed, worker, up, panicked>>
  <1> DEFINE old == sbpCache[m]
             replaced == old # None /\ sbp[m] # None /\ old.uid # sbp[m].uid
  <1>1. PICK new \in Seen(old, sbp[m], replaced) :
           /\ IF replaced /\ new # None THEN Event("relist") ELSE UNCHANGED events
           /\ sbpCache' = [sbpCache EXCEPT ![m] = new]
           /\ dirty' = IF Enqueues(old, new) THEN dirty \cup {PolicyRef(m)} ELSE dirty
    BY DEF DeliverPolicy
  <1>2. /\ up
        /\ UNCHANGED <<sbp, bp, bdg, cs, objs, nextUid, resolverVars, delayed, worker, up, panicked>>
    BY DEF DeliverPolicy
  <1>3. sbpCache'[m] = new /\ \A n \in SBPs : n # m => sbpCache'[n] = sbpCache[n]
    BY <1>1 DEF TypeInv, CachesTyped
  <1>4. new \in {None, sbp[m]} /\ (replaced => new = None)
    BY <1>1 DEF Seen, NoRelist, Event
  <1>5. ~Enqueues(old, new) => SameVersion(old, new)
    BY <1>4 DEF Enqueues, SameVersion, VersionsInv, GenerationTells
  <1> HIDE DEF old, replaced
  <1> QED
    BY <1>1, <1>2, <1>3, <1>4, <1>5 DEF old

-----------------------------------------------------------------------------
LEMMA NextDown ==
  ASSUME TypeInv, DownInv, [Next]_vars
  PROVE  DownInv'
  <1>1. WorkersTyped /\ TableInv /\ WdsTypeOK
    BY DEF TypeInv
  <1>2. CASE Environment \/ UNCHANGED vars
    BY <1>2 DEF Environment, vars, resolverVars, cacheVars, queueVars, DownInv, Tracked
  <1>3. CASE Informers
    BY <1>3 DEF Informers, DeliverPolicy, DeliverBinding, DeliverStatus, DownInv
  <1>4. ASSUME NEW w \in Workers, WorkerStep(w) PROVE DownInv'
    BY <1>4 DEF WorkerStep, Get, ReadLister, Reconcile, Finish, DownInv
  <1>5. CASE Resolve
    BY <1>1, <1>5, OpStepsBusy DEF Resolve, DownInv
  <1>6. CASE \E item \in delayed : Requeue(item)
    BY <1>6 DEF Requeue, DownInv
  <1>7. CASE Crash \/ Panic
    BY <1>7, LoseMemoryParts DEF Crash, Panic, DownInv
  <1>8. CASE Restart
    BY <1>8 DEF Restart, DownInv
  <1> QED
    BY <1>2, <1>3, <1>4, <1>5, <1>6, <1>7, <1>8 DEF Next

-----------------------------------------------------------------------------
LEMMA NextVersions ==
  ASSUME NoRelist, TypeInv, VersionsInv, [Next]_vars
  PROVE  VersionsInv'
  <1>1. /\ WorkersTyped /\ TableInv /\ WdsTypeOK /\ CachesTyped
        /\ nextUid \in Nat /\ nextUid' \in Nat /\ nextUid <= nextUid'
    BY NextBpMoves DEF TypeInv, BpMoves
  <1> DEFINE Known(x) == x # None => x.uid \in Nat /\ UidUsed(x)
             ReadOf(w) == worker[w].pc = "read" /\ worker[w].item[1] = "sbp"
  <1>2. /\ \A n \in SBPs : Known(sbp[n]) /\ Known(sbpCache[n]) /\ Known(Tracked(n))
        /\ \A w \in Workers : ReadOf(w) => Known(worker[w].obj)
    <2>1. \A n \in SBPs : /\ sbp[n] # None => sbp[n].uid \in Nat
                          /\ sbpCache[n] # None => sbpCache[n].uid \in Nat
                          /\ Tracked(n) # None => Tracked(n).uid \in Nat
      BY <1>1 DEF WdsTypeOK, CachesTyped, TableInv, Tracked, SBPObjects, Entries, Uids
    <2>2. \A w \in Workers : ReadOf(w) => worker[w].obj \in SBPObjects \cup {None}
      BY <1>1 DEF WorkersTyped, WorkerOK, Found
    <2> QED
      BY <2>1, <2>2 DEF SBPObjects, Uids, VersionsInv
  <1> HIDE DEF Known
  <1>4. ASSUME UNCHANGED <<sbp, sbpCache>> PROVE \A n \in SBPs : GenerationTells(n)'
    BY <1>4 DEF GenerationTells, VersionsInv
  <1>5. CASE Environment
    <2>1. WdsNext /\ UNCHANGED <<stagedBindingPolicies, sbpCache, worker>>
      BY <1>5 DEF Environment, resolverVars, cacheVars, queueVars
    <2>2. ASSUME NEW n \in SBPs PROVE UidUsed(sbp[n])' /\ GenerationTells(n)'
      <3>1. CASE sbp'[n] = sbp[n] \/ sbp'[n] = None
        BY <1>1, <1>2, <2>1, <3>1 DEF Known, UidUsed, GenerationTells, VersionsInv
      <3>2. CASE sbp[n] = None /\ sbp'[n].uid = nextUid /\ nextUid' = nextUid + 1
        BY <1>1, <1>2, <2>1, <3>2 DEF Known, UidUsed, GenerationTells, VersionsInv
      <3>3. CASE sbp[n] \in SBPObjects /\ sbp'[n].uid = sbp[n].uid /\ sbp'[n].gen = sbp[n].gen + 1
        <4>1. sbp[n] # None /\ sbp[n].gen \in Nat
          BY <3>3, WdsAssumption DEF SBPObjects
        <4>2. sbpCache[n] # None => sbpCache[n].gen \in Nat
          BY <1>1 DEF CachesTyped, SBPObjects
        <4> QED
          BY <1>1, <1>2, <2>1, <3>3, <4>1, <4>2 DEF Known, UidUsed, GenerationTells, VersionsInv
      <3> QED
        BY <1>1, <2>1, <3>1, <3>2, <3>3, UsersParts
    <2>3. \A n \in SBPs : UidUsed(sbpCache[n])' /\ UidUsed(Tracked(n))'
      BY <1>1, <1>2, <2>1 DEF Known, UidUsed, Tracked
    <2>4. \A w \in Workers : ReadOf(w)' => UidUsed(worker[w].obj)'
      BY <1>1, <1>2, <2>1 DEF Known, UidUsed
    <2> QED
      BY <2>2, <2>3, <2>4 DEF VersionsInv
  <1>6. ASSUME UNCHANGED sbp PROVE \A n \in SBPs : UidUsed(sbp[n])'
    BY <1>1, <1>2, <1>6 DEF Known, UidUsed
  <1>7. ASSUME UNCHANGED sbpCache PROVE \A n \in SBPs : UidUsed(sbpCache[n])'
    BY <1>1, <1>2, <1>7 DEF Known, UidUsed
  <1>8. ASSUME UNCHANGED stagedBindingPolicies PROVE \A n \in SBPs : UidUsed(Tracked(n))'
    BY <1>1, <1>2, <1>8 DEF Known, UidUsed, Tracked
  <1>9. ASSUME \A w \in Workers : worker'[w] = worker[w] \/ worker'[w].pc # "read"
        PROVE  \A w \in Workers : ReadOf(w)' => UidUsed(worker[w].obj)'
    BY <1>1, <1>2, <1>9 DEF Known, UidUsed
  <1>10. ASSUME NEW m \in SBPs, DeliverPolicy(m) PROVE VersionsInv'
    <2>1. /\ \A n \in SBPs : sbpCache'[n] \in {None, sbp[n]} \/ sbpCache'[n] = sbpCache[n]
          /\ UNCHANGED <<sbp, stagedBindingPolicies, worker>>
      BY <1>10, DeliverPolicyParts DEF resolverVars
    <2>2. \A n \in SBPs : UidUsed(sbpCache[n])' /\ GenerationTells(n)'
      <3> TAKE n \in SBPs
      <3>1. sbp[n] # None => sbp[n].gen \in Nat
        BY <1>1 DEF WdsTypeOK, SBPObjects
      <3> QED
        BY <1>1, <1>2, <2>1, <3>1 DEF Known, UidUsed, GenerationTells, VersionsInv
    <2> QED
      BY <1>6, <1>8, <1>9, <2>1, <2>2 DEF VersionsInv
  <1>11. CASE \/ \E k \in BPKeys : DeliverBinding(k)
              \/ \E o \in Objects, u \in 1..(nextUid - 1) : DeliverStatus(o, u)
              \/ \E item \in delayed : Requeue(item)
              \/ UNCHANGED vars
    <2>1. UNCHANGED <<sbp, sbpCache, stagedBindingPolicies, worker>>
      BY <1>11 DEF DeliverBinding, DeliverStatus, Requeue, vars, wdsVars, resolverVars, cacheVars, queueVars
    <2> QED
      BY <1>4, <1>6, <1>7, <1>8, <1>9, <2>1 DEF VersionsInv
  <1>12. ASSUME NEW w \in Workers, WorkerStep(w) PROVE VersionsInv'
    <2>1. UNCHANGED <<sbp, sbpCache>>
      BY <1>12 DEF WorkerStep, Get, ReadLister, Reconcile, Finish, wdsVars, cacheVars
    <2>2. ASSUME NEW item \in dirty, Get(w, item) PROVE VersionsInv'
      <3>1. item # None
        BY ControllerAssumption DEF TypeInv, QueueTyped
      <3>2. /\ \A v \in Workers : worker'[v] = worker[v] \/ worker'[v].pc # "read"
            /\ UNCHANGED stagedBindingPolicies
        BY <1>1, <2>2, <3>1, GetParts DEF resolverVars
      <3> QED
        BY <1>4, <1>6, <1>7, <1>8, <1>9, <2>1, <3>2 DEF VersionsInv
    <2>3. CASE ReadLister(w)
      <3>1. /\ UNCHANGED stagedBindingPolicies
            /\ worker[w].item \in Items
            /\ \A v \in Workers :
                  \/ worker'[v] = worker[v]
                  \/ ~ReadOf(v)'
                  \/ /\ worker[w].item[1] = "sbp"
                     /\ worker'[v].obj = sbpCache[worker[w].item[2]]
        BY <1>1, <2>3, ReadListerParts DEF resolverVars
      <3>2. worker[w].item[1] = "sbp" => worker[w].item[2] \in SBPs
        BY <3>1, ItemParts
      <3>3. \A v \in Workers : ReadOf(v)' => UidUsed(worker[v].obj)'
        BY <1>1, <1>2, <3>1, <3>2 DEF Known, UidUsed
      <3> QED
        BY <1>4, <1>6, <1>7, <1>8, <2>1, <3>1, <3>3 DEF VersionsInv
    <2>4. CASE Reconcile(w)
      <3>1. /\ worker[w].pc = "read"
            /\ \A v \in Workers : worker'[v] = worker[v] \/ worker'[v].pc # "read"
        BY <1>1, <2>4, ReconcileMoves
      <3>2. ASSUME NEW n \in SBPs PROVE UidUsed(Tracked(n))'
        <4>1. CASE worker[w].item # PolicyRef(n)
          BY <1>1, <1>2, <2>4, <4>1, ReconcileParts, ResolverAssumption DEF SameEntry, Known, UidUsed
        <4>2. CASE worker[w].item = PolicyRef(n)
          <5>1. ReadOf(w)
            BY <3>1, <4>2 DEF PolicyRef
          <5> QED
            BY <1>1, <1>2, <2>4, <4>2, <5>1, ReconcileParts, WdsAssumption DEF Known, UidUsed
        <4> QED
          BY <4>1, <4>2
      <3> QED
        BY <1>4, <1>6, <1>7, <1>9, <2>1, <3>1, <3>2 DEF VersionsInv
    <2>5. CASE Finish(w)
      <3>1. /\ UNCHANGED stagedBindingPolicies
            /\ \A v \in Workers : worker'[v] = worker[v] \/ worker'[v].pc # "read"
        BY <1>1, <2>5, FinishMoves
      <3> QED
        BY <1>4, <1>6, <1>7, <1>8, <1>9, <2>1, <3>1 DEF VersionsInv
    <2> QED
      BY <1>12, <2>2, <2>3, <2>4, <2>5 DEF WorkerStep
  <1>13. CASE Resolve
    <2>1. OpSteps /\ UNCHANGED <<sbpCache, worker>>
      BY <1>13 DEF Resolve, cacheVars, queueVars
    <2> PICK p \in SBPs : op.sbp = p
      BY <1>1, <2>1, OpStepsBusy
    <2>2. ASSUME NEW n \in SBPs
          PROVE  UidUsed(sbp[n])' /\ UidUsed(Tracked(n))' /\ GenerationTells(n)'
      <3>1. SpecSame(n) /\ TracksSame(n)
        BY <1>1, <2>1, OpStepsSame DEF OthersKept, TracksSame, SpecSame
      <3>2. UidUsed(Tracked(n))'
        BY <1>1, <1>2, <3>1, ResolverAssumption DEF TracksSame, Known, UidUsed
      <3>3. UidUsed(sbp[n])' /\ GenerationTells(n)'
        BY <1>1, <1>2, <2>1, <3>1, WdsAssumption DEF SpecSame, Known, UidUsed, GenerationTells, VersionsInv
      <3> QED
        BY <3>2, <3>3
    <2> QED
      BY <1>7, <1>9, <2>1, <2>2 DEF VersionsInv
  <1>14. CASE Crash \/ Panic
    <2>1. LoseMemory /\ UNCHANGED sbp
      BY <1>14 DEF Crash, Panic, wdsVars
    <2> QED
      BY <1>6, <2>1, LoseMemoryParts DEF UidUsed, GenerationTells, VersionsInv
  <1>15. CASE Restart
    <2>1. UNCHANGED <<sbp, stagedBindingPolicies, worker>> /\ sbpCache' = sbp
      BY <1>15 DEF Restart, wdsVars, resolverVars
    <2>2. \A n \in SBPs : UidUsed(sbpCache[n])' /\ GenerationTells(n)'
      <3> TAKE n \in SBPs
      <3>1. sbp[n] # None => sbp[n].gen \in Nat
        BY <1>1 DEF WdsTypeOK, SBPObjects
      <3> QED
        BY <1>1, <1>2, <2>1, <3>1 DEF Known, UidUsed, GenerationTells
    <2> QED
      BY <1>6, <1>8, <1>9, <2>1, <2>2 DEF VersionsInv
  <1> QED
    BY <1>5, <1>10, <1>11, <1>12, <1>13, <1>14, <1>15 DEF Next, Informers

-----------------------------------------------------------------------------
(* What is neither read nor noted anew stays followed, as long as the item *)
(* stays queued and the store's copy changes in its status only.           *)
LEMMA FollowedKept ==
  ASSUME NEW n \in SBPs, Followed(n),
         PolicyRef(n) \in dirty => PolicyRef(n) \in dirty',
         SameVersion(sbpCache[n], sbpCache'[n]),
         SameVersion(Tracked(n), Tracked(n)'),
         \A w \in Workers :
            \/ worker'[w] = worker[w]
            \/ /\ Holds(w, n) => worker[w].pc = "resolving"
               /\ Holds(w, n)' => worker'[w].pc = "resolving"
  PROVE  Followed(n)'
  BY DEF Followed, SameVersion, Holds

LEMMA NextFollowed ==
  ASSUME NoRelist, TypeInv, VersionsInv, DownInv, FollowInv, [Next]_vars
  PROVE  FollowInv'
  <1>1. WorkersTyped /\ TableInv /\ WdsTypeOK /\ CachesTyped
    BY DEF TypeInv
  <1> SUFFICES ASSUME NEW n \in SBPs
               PROVE  Followed(n)'
    BY DEF FollowInv
  <1>2. Followed(n)
    BY DEF FollowInv
  <1>3. \A x : SameVersion(x, x)
    BY DEF SameVersion
  <1>4. ASSUME dirty \subseteq dirty', UNCHANGED <<sbpCache, stagedBindingPolicies, worker>>
        PROVE  Followed(n)'
    BY <1>2, <1>3, <1>4, FollowedKept DEF Tracked
  <1>5. CASE \/ Environment \/ UNCHANGED vars
             \/ \E k \in BPKeys : DeliverBinding(k)
             \/ \E o \in Objects, u \in 1..(nextUid - 1) : DeliverStatus(o, u)
             \/ \E item \in delayed : Requeue(item)
    BY <1>4, <1>5 DEF Environment, DeliverBinding, DeliverStatus, Requeue, vars, resolverVars, cacheVars, queueVars
  <1>6. ASSUME NEW m \in SBPs, DeliverPolicy(m) PROVE Followed(n)'
    <2>1. /\ UNCHANGED <<stagedBindingPolicies, worker>> /\ dirty \subseteq dirty'
          /\ IF n = m THEN PolicyRef(n) \in dirty' \/ SameVersion(sbpCache[n], sbpCache'[n])
                      ELSE sbpCache'[n] = sbpCache[n]
      BY <1>6, DeliverPolicyParts DEF resolverVars
    <2>2. CASE PolicyRef(n) \in dirty'
      BY <2>2 DEF Followed
    <2>3. CASE SameVersion(sbpCache[n], sbpCache'[n])
      BY <1>2, <1>3, <2>1, <2>3, FollowedKept DEF Tracked
    <2> QED
      BY <1>3, <2>1, <2>2, <2>3
  <1>7. ASSUME NEW w \in Workers, WorkerStep(w) PROVE Followed(n)'
    <2>1. ASSUME NEW item \in dirty, Get(w, item) PROVE Followed(n)'
      <3>1. item # None
        BY ControllerAssumption DEF TypeInv, QueueTyped
      <3>2. /\ worker[w].pc = "idle"
            /\ worker'[w].pc = "dequeued" /\ worker'[w].item = item
            /\ \A v \in Workers : worker[v].item # item
            /\ \A v \in Workers : v # w => worker'[v] = worker[v]
            /\ dirty' = dirty \ {item}
            /\ UNCHANGED <<stagedBindingPolicies, sbpCache>>
        BY <1>1, <2>1, <3>1, GetParts DEF resolverVars, cacheVars
      <3>3. CASE item = PolicyRef(n)
        BY <3>2, <3>3 DEF Followed, Holds
      <3>4. CASE item # PolicyRef(n)
        <4>1. PolicyRef(n) \in dirty => PolicyRef(n) \in dirty'
          BY <3>2, <3>4
        <4>2. \A v \in Workers : worker'[v] = worker[v] \/ (~Holds(v, n) /\ ~Holds(v, n)')
          BY <3>2, <3>4 DEF Holds
        <4> QED
          BY <1>2, <1>3, <3>2, <4>1, <4>2, FollowedKept DEF Tracked
      <3> QED
        BY <3>3, <3>4
    <2>2. CASE ReadLister(w)
      <3>1. /\ worker[w].pc = "dequeued"
            /\ \A v \in Workers : v # w => worker'[v] = worker[v]
            /\ worker[w].item[1] # "sbp" => worker'[w].pc = "idle" \/ worker'[w].item = worker[w].item
            /\ worker[w].item[1] = "sbp" =>
                  /\ worker'[w].pc = "read" /\ worker'[w].item = worker[w].item
                  /\ worker'[w].obj = sbpCache[worker[w].item[2]]
            /\ UNCHANGED <<stagedBindingPolicies, sbpCache, dirty>>
        BY <1>1, <2>2, ReadListerParts DEF resolverVars, cacheVars
      <3>2. CASE worker[w].item = PolicyRef(n)
        <4>1. worker'[w].pc = "read" /\ worker'[w].item = PolicyRef(n) /\ worker'[w].obj = sbpCache'[n]
          BY <3>1, <3>2 DEF PolicyRef
        <4> QED
          BY <1>2, <1>3, <3>1, <4>1 DEF Followed, Holds
      <3>3. CASE worker[w].item # PolicyRef(n)
        <4>1. \A v \in Workers : worker'[v] = worker[v] \/ (~Holds(v, n) /\ ~Holds(v, n)')
          BY <3>1, <3>3 DEF Holds
        <4> QED
          BY <1>2, <1>3, <3>1, <4>1, FollowedKept DEF Tracked
      <3> QED
        BY <3>2, <3>3
    <2>3. CASE Reconcile(w)
      <3>1. /\ worker[w].pc = "read"
            /\ worker'[w].pc = "resolving" /\ worker'[w].item = worker[w].item
            /\ \A v \in Workers : v # w => worker'[v] = worker[v]
            /\ UNCHANGED <<sbpCache, dirty>>
        BY <1>1, <2>3, ReconcileMoves DEF cacheVars
      <3>2. CASE worker[w].item = PolicyRef(n)
        <4>1. SameVersion(Tracked(n)', worker[w].obj)
          BY <2>3, <3>2, ReconcileParts, WdsAssumption, ResolverAssumption DEF SameVersion
        <4>2. PolicyRef(n) \in dirty \/ SameVersion(worker[w].obj, sbpCache[n])
          BY <1>2, <3>1, <3>2 DEF Followed, Holds
        <4>3. PolicyRef(n) \in dirty' \/ SameVersion(Tracked(n)', sbpCache'[n])
          BY <3>1, <4>1, <4>2 DEF SameVersion
        <4>4. \A v \in Workers : Holds(v, n)' /\ worker'[v].pc = "read" => Holds(v, n) /\ worker'[v] = worker[v]
          BY <3>1 DEF Holds
        <4> QED
          BY <1>2, <3>1, <4>3, <4>4 DEF Followed, Holds
      <3>3. CASE worker[w].item # PolicyRef(n)
        <4>1. SameVersion(Tracked(n), Tracked(n)')
          BY <2>3, <3>3, ReconcileParts, ResolverAssumption DEF SameEntry, SameVersion
        <4>2. \A v \in Workers : worker'[v] = worker[v] \/ (~Holds(v, n) /\ ~Holds(v, n)')
          BY <3>1, <3>3 DEF Holds
        <4> QED
          BY <1>2, <1>3, <3>1, <4>1, <4>2, FollowedKept
      <3> QED
        BY <3>2, <3>3
    <2>4. CASE Finish(w)
      <3>1. /\ worker[w].pc = "resolving" /\ worker'[w].pc = "idle"
            /\ \A v \in Workers : v # w => worker'[v] = worker[v]
            /\ UNCHANGED <<stagedBindingPolicies, sbpCache, dirty>>
        BY <1>1, <2>4, FinishMoves DEF cacheVars
      <3> QED
        BY <1>2, <1>3, <3>1, FollowedKept DEF Tracked, Holds
    <2> QED
      BY <1>7, <2>1, <2>2, <2>3, <2>4 DEF WorkerStep
  <1>8. CASE Resolve
    <2>1. OpSteps /\ UNCHANGED <<sbpCache, dirty, worker>>
      BY <1>8 DEF Resolve, cacheVars, queueVars
    <2> PICK p \in SBPs : op.sbp = p
      BY <1>1, <2>1, OpStepsBusy
    <2>2. SameVersion(Tracked(n), Tracked(n)')
      BY <1>1, <1>3, <2>1, OpStepsSame, ResolverAssumption DEF OthersKept, TracksSame, SameVersion
    <2> QED
      BY <1>2, <1>3, <2>1, <2>2, FollowedKept
  <1>9. CASE Crash \/ Panic
    <2>1. LoseMemory
      BY <1>9 DEF Crash, Panic
    <2> QED
      BY <2>1, LoseMemoryParts DEF Followed, Holds, SameVersion
  <1>10. CASE Restart
    <2>1. /\ Tracked(n)' = None /\ sbpCache'[n] = sbp[n]
          /\ \A w \in Workers : worker'[w].pc = "idle"
          /\ sbp[n] # None => PolicyRef(n) \in dirty'
      BY <1>10 DEF Restart, wdsVars, resolverVars, DownInv, Tracked
    <2> QED
      BY <2>1 DEF Followed, Holds, SameVersion
  <1> QED
    BY <1>5, <1>6, <1>7, <1>8, <1>9, <1>10 DEF Next, Informers

-----------------------------------------------------------------------------
(* A status stays noted while users edit, delete and create, and while an  *)
(* operation runs, which writes only names of tracked stages.              *)
LEMMA UsersKeepNoted ==
  ASSUME WdsTypeOK, TableInv, VersionsInv, WdsNext, NEW n \in SBPs, StatusNoted(n),
         UNCHANGED stagedBindingPolicies
  PROVE  StatusNoted(n)'
  <1>1. Tracked(n)' = Tracked(n)
    BY DEF Tracked
  <1>2. Tracked(n) # None => Tracked(n).uid \in Nat /\ Tracked(n).uid < nextUid
    BY DEF TableInv, Tracked, Entries, Uids, VersionsInv, UidUsed
  <1>3. nextUid \in Nat
    BY DEF WdsTypeOK, Uids
  <1>4. CASE sbp'[n] = sbp[n] \/ sbp'[n] = None
    BY <1>1, <1>4 DEF StatusNoted
  <1>5. CASE sbp'[n].uid = nextUid
    BY <1>1, <1>2, <1>3, <1>5 DEF StatusNoted
  <1>6. CASE sbp[n] \in SBPObjects /\ sbp'[n].uid = sbp[n].uid /\ sbp'[n].active = sbp[n].active
    BY <1>1, <1>6, WdsAssumption DEF StatusNoted
  <1> QED
    BY <1>4, <1>5, <1>6, UsersParts

LEMMA OpStepsNoted ==
  ASSUME WdsTypeOK, TableInv, OpSteps, NEW p \in SBPs, op.sbp = p
  PROVE  /\ \A n \in SBPs : StatusNoted(n) => StatusNoted(n)'
         /\ Succeeds' => Succeeds \/ StatusNoted(p)'
  <1>1. op # None /\ op.pc # "return" /\ op.staging \in BOOLEAN
    BY OpStepsBusy DEF TableInv, Ops
  <1>2. Entry = Tracked(p) /\ Tracked(p) \in Entries /\ Tracked(p).stages \in Seq(Stages)
    BY <1>1, InProgressTyped DEF Entry, Tracked
  <1>3. \A n \in SBPs : TracksSame(n)
    BY OpStepsSame DEF OthersKept, TracksSame
  <1>4. ASSUME NEW n \in SBPs, sbp'[n] = sbp[n] PROVE StatusNoted(n) => StatusNoted(n)'
    BY <1>3, <1>4, ResolverAssumption DEF TracksSame, StatusNoted
  <1>5. ASSUME Fail PROVE Succeeds' => Succeeds
    BY <1>1, <1>5, FailParts DEF OpBecomes, Succeeds
  <1>6. CASE \E o \in Objects : CheckObject(o)
    <2>1. op.pc = "attempt" /\ UNCHANGED sbp
      BY <1>6, CheckObjectParts DEF wdsVars
    <2> QED
      BY <1>4, <2>1 DEF Succeeds
  <1>7. CASE DeletePrevious
    BY <1>4, <1>5, <1>7, DeletePreviousParts DEF OpBecomes, Succeeds
  <1>8. CASE CreateActive
    <2>1. UNCHANGED sbp /\ (Fail \/ OpBecomes(p, "get", op.staging))
      BY <1>8, CreateActiveParts
    <2> QED
      BY <1>4, <1>5, <2>1 DEF OpBecomes, Succeeds
  <1>9. CASE GetPolicy
    <2>1. UNCHANGED sbp /\ (Fail \/ OpBecomes(p, "update", op.staging))
      BY <1>9, GetPolicyParts
    <2> QED
      BY <1>4, <1>5, <2>1 DEF OpBecomes, Succeeds
  <1>10. CASE UpdateStatus
    <2> DEFINE name == Stage(Entry, Entry.activeIndex).name
    <2>1. op.pc = "update" /\ \/ StatusBecomes(p, name) /\ TableKept
                              \/ StatusBecomes(p, name) /\ Fail
                              \/ UNCHANGED sbp /\ Fail
      BY <1>10, UpdateStatusParts
    <2>2. ASSUME StatusBecomes(p, name) PROVE StatusNoted(p)' /\ \A n \in SBPs : n # p => sbp'[n] = sbp[n]
      <3>1. /\ sbp'[p].active = name
            /\ \A n \in SBPs : n # p => sbp'[n] = sbp[n]
        BY <2>2 DEF StatusBecomes
      <3>2. /\ Entry.activeIndex \in Nat /\ Entry.activeIndex < Len(Entry.stages)
            /\ Len(Entry.stages) \in Nat
        BY <1>1, <2>1, InProgressTyped DEF TableInv, OpOK
      <3>3. /\ Entry.activeIndex + 1 \in 1..Len(Tracked(p).stages)
            /\ Tracked(p).stages[Entry.activeIndex + 1].name = name
        BY <1>2, <3>2 DEF Stage
      <3>4. Tracked(p)' # None => Tracked(p)'.stages = Tracked(p).stages
        BY <1>3 DEF TracksSame
      <3> HIDE DEF name
      <3> QED
        BY <3>1, <3>3, <3>4 DEF StatusNoted
    <2> HIDE DEF name
    <2> QED
      BY <1>4, <1>5, <2>1, <2>2
  <1> QED
    BY <1>6, <1>7, <1>8, <1>9, <1>10 DEF OpSteps

LEMMA NextNoted ==
  ASSUME NoRelist, TypeInv, VersionsInv, DownInv, NotedInv, [Next]_vars
  PROVE  NotedInv'
  <1>1. WorkersTyped /\ TableInv /\ WdsTypeOK /\ CachesTyped
    BY DEF TypeInv
  <1> DEFINE Kept == \A n \in SBPs : StatusNoted(n) => StatusNoted(n)'
             CallNotes(n, w) == Holds(w, n) /\ worker[w].pc = "resolving" =>
                                   op.sbp = n /\ (Succeeds => StatusNoted(n))
  <1>2. ASSUME Kept, UNCHANGED <<op, worker>>, dirty \cup delayed \subseteq dirty' \cup delayed'
        PROVE  NotedInv'
    BY <1>2 DEF NotedInv, MutexHeld, Noting, Holds, Succeeds
  <1>3. ASSUME \A n \in SBPs : Tracked(n)' = Tracked(n) /\ sbp'[n] = sbp[n]
        PROVE  Kept
    BY <1>3 DEF StatusNoted
  <1> HIDE DEF Kept
  <1>4. CASE Environment
    <2>1. WdsNext /\ UNCHANGED <<stagedBindingPolicies, op, dirty, delayed, worker>>
      BY <1>4 DEF Environment, resolverVars, queueVars
    <2>2. Kept
      BY <1>1, <2>1, UsersKeepNoted DEF Kept
    <2> QED
      BY <1>2, <2>1, <2>2
  <1>5. CASE Informers \/ (\E item \in delayed : Requeue(item)) \/ UNCHANGED vars
    <2>1. /\ UNCHANGED <<sbp, stagedBindingPolicies, op, worker>>
          /\ dirty \cup delayed \subseteq dirty' \cup delayed'
      <3>1. ASSUME NEW m \in SBPs, DeliverPolicy(m)
            PROVE  UNCHANGED <<sbp, stagedBindingPolicies, op, worker, delayed>> /\ dirty \subseteq dirty'
        BY <3>1, DeliverPolicyParts DEF resolverVars
      <3>2. ASSUME NEW k \in BPKeys, DeliverBinding(k)
            PROVE  UNCHANGED <<sbp, stagedBindingPolicies, op, worker, delayed>> /\ dirty \subseteq dirty'
        BY <3>2 DEF DeliverBinding, resolverVars
      <3>3. ASSUME NEW o \in Objects, NEW u \in 1..(nextUid - 1), DeliverStatus(o, u)
            PROVE  UNCHANGED <<sbp, stagedBindingPolicies, op, worker, delayed>> /\ dirty \subseteq dirty'
        BY <3>3 DEF DeliverStatus, wdsVars, resolverVars
      <3>4. CASE Informers
        BY <3>1, <3>2, <3>3, <3>4 DEF Informers
      <3> QED
        BY <1>5, <3>4 DEF Requeue, vars, wdsVars, resolverVars, queueVars
    <2>2. Kept
      BY <1>3, <2>1 DEF Tracked
    <2> QED
      BY <1>2, <2>1, <2>2
  <1>6. ASSUME NEW w \in Workers, WorkerStep(w) PROVE NotedInv'
    <2>1. ASSUME NEW item \in dirty, Get(w, item) PROVE NotedInv'
      <3>1. item # None
        BY ControllerAssumption DEF TypeInv, QueueTyped
      <3>2. /\ worker[w].pc = "idle"
            /\ worker'[w].pc = "dequeued" /\ worker'[w].item = item
            /\ \A v \in Workers : v # w => worker'[v] = worker[v]
            /\ dirty' = dirty \ {item}
            /\ UNCHANGED <<sbp, stagedBindingPolicies, op, delayed>>
        BY <1>1, <2>1, <3>1, GetParts DEF wdsVars, resolverVars
      <3>3. Kept
        BY <1>3, <3>2 DEF Tracked
      <3>4. \A n \in SBPs : StatusNoted(n)' \/ Noting(n)'
        BY <3>2, <3>3 DEF Kept, NotedInv, Noting, Holds
      <3>5. MutexHeld' /\ \A n \in SBPs, v \in Workers : CallNotes(n, v)'
        BY <3>2, <3>3 DEF Kept, NotedInv, MutexHeld, Holds, Succeeds
      <3> QED
        BY <3>4, <3>5 DEF NotedInv
    <2>2. CASE ReadLister(w)
      <3>1. /\ worker[w].pc = "dequeued"
            /\ \A v \in Workers : v # w => worker'[v] = worker[v]
            /\ worker'[w].pc # "resolving"
            /\ worker[w].item[1] = "sbp" => worker'[w].pc = "read" /\ worker'[w].item = worker[w].item
            /\ UNCHANGED <<sbp, stagedBindingPolicies, op, dirty, delayed>>
        BY <1>1, <2>2, ReadListerParts DEF wdsVars, resolverVars
      <3>2. Kept
        BY <1>3, <3>1 DEF Tracked
      <3>3. \A n \in SBPs, v \in Workers : Holds(v, n) => Holds(v, n)'
        BY <3>1 DEF Holds, PolicyRef
      <3>4. \A n \in SBPs : StatusNoted(n)' \/ Noting(n)'
        BY <3>1, <3>2, <3>3 DEF Kept, NotedInv, Noting
      <3>5. MutexHeld' /\ \A n \in SBPs, v \in Workers : CallNotes(n, v)'
        BY <3>1, <3>2 DEF Kept, NotedInv, MutexHeld, Holds, Succeeds
      <3> QED
        BY <3>4, <3>5 DEF NotedInv
    <2>3. CASE Reconcile(w)
      <3>1. /\ worker[w].pc = "read"
            /\ worker'[w].pc = "resolving" /\ worker'[w].item = worker[w].item
            /\ \A v \in Workers : v # w => worker'[v] = worker[v]
            /\ UNCHANGED <<sbp, dirty, delayed>>
        BY <1>1, <2>3, ReconcileMoves DEF wdsVars
      <3>2. op = None /\ op' # None
        BY <2>3, ReconcileParts, ResolverAssumption
      <3>3. \A v \in Workers : worker[v].pc # "resolving"
        BY <3>2 DEF NotedInv, MutexHeld
      <3>4. \A n \in SBPs, v \in Workers : Holds(v, n) => Holds(v, n)'
        BY <3>1 DEF Holds
      <3>5. ASSUME NEW n \in SBPs PROVE StatusNoted(n)' \/ Noting(n)'
        <4>1. CASE Noting(n)
          BY <3>1, <3>4, <4>1 DEF Noting
        <4>2. CASE ~Noting(n)
          <5>1. worker[w].item # PolicyRef(n)
            BY <3>1, <4>2 DEF Noting, Holds
          <5> QED
            BY <2>3, <3>1, <4>2, <5>1, ReconcileParts, ResolverAssumption DEF SameEntry, StatusNoted, NotedInv
        <4> QED
          BY <4>1, <4>2
      <3>6. MutexHeld'
        BY <3>1, <3>2, <3>3 DEF MutexHeld
      <3>7. ASSUME NEW n \in SBPs, NEW v \in Workers PROVE CallNotes(n, v)'
        <4>1. CASE v = w /\ worker[w].item = PolicyRef(n)
          <5>1. op'.sbp = n /\ ~op'.staging /\ (Tracked(n)' = None \/ op'.pc \in {"delete", "create"})
            BY <2>3, <4>1, ReconcileParts
          <5> QED
            BY <5>1 DEF StatusNoted, Succeeds
        <4> QED
          BY <3>1, <3>3, <4>1 DEF Holds
      <3> QED
        BY <3>5, <3>6, <3>7 DEF NotedInv
    <2>4. CASE Finish(w)
      <3>1. /\ worker[w].pc = "resolving" /\ worker'[w].pc = "idle"
            /\ \A v \in Workers : v # w => worker'[v] = worker[v]
            /\ op # None /\ op.pc = "return" /\ op' = None
            /\ delayed' = IF op.err THEN delayed \cup {worker[w].item} ELSE delayed
            /\ UNCHANGED <<sbp, stagedBindingPolicies, dirty>>
        BY <1>1, <2>4, FinishMoves DEF wdsVars
      <3>2. Kept
        BY <1>3, <3>1 DEF Tracked
      <3>3. \A v \in Workers : worker'[v].pc # "resolving"
        BY <3>1 DEF NotedInv, MutexHeld
      <3>4. ASSUME NEW n \in SBPs PROVE StatusNoted(n)' \/ Noting(n)'
        <4>1. CASE Holds(w, n) /\ ~op.err
          BY <3>1, <3>2, <4>1 DEF Kept, NotedInv, Succeeds
        <4>2. CASE Holds(w, n) /\ op.err
          BY <3>1, <4>2 DEF Holds, Noting
        <4>3. CASE ~Holds(w, n)
          BY <3>1, <3>2, <4>3 DEF Kept, NotedInv, Noting, Holds
        <4> QED
          BY <4>1, <4>2, <4>3
      <3> QED
        BY <3>3, <3>4 DEF NotedInv, MutexHeld
    <2> QED
      BY <1>6, <2>1, <2>2, <2>3, <2>4 DEF WorkerStep
  <1>7. CASE Resolve
    <2>1. OpSteps /\ UNCHANGED <<dirty, delayed, worker>>
      BY <1>7 DEF Resolve, queueVars
    <2> PICK p \in SBPs : op.sbp = p
      BY <1>1, <2>1, OpStepsBusy
    <2>2. op' # None /\ op'.sbp = p
      BY <1>1, <2>1, OpStepsSame, ResolverAssumption
    <2>3. Kept /\ (Succeeds' => Succeeds \/ StatusNoted(p)')
      BY <1>1, <2>1, OpStepsNoted DEF Kept
    <2>4. \A n \in SBPs : StatusNoted(n)' \/ Noting(n)'
      BY <2>1, <2>3 DEF Kept, NotedInv, Noting, Holds
    <2>5. MutexHeld'
      BY <2>1, <2>2 DEF NotedInv, MutexHeld
    <2>6. \A n \in SBPs, w \in Workers : CallNotes(n, w)'
      <3> SUFFICES ASSUME NEW n \in SBPs, NEW w \in Workers, Holds(w, n)', worker'[w].pc = "resolving"
                   PROVE  op'.sbp = n /\ (Succeeds' => StatusNoted(n)')
        OBVIOUS
      <3>1. Holds(w, n) /\ worker[w].pc = "resolving"
        BY <2>1 DEF Holds
      <3>2. op.sbp = n /\ (Succeeds => StatusNoted(n))
        BY <3>1 DEF NotedInv
      <3> QED
        BY <2>2, <2>3, <3>2 DEF Kept
    <2> QED
      BY <2>4, <2>5, <2>6 DEF NotedInv
  <1>8. CASE Crash \/ Panic
    <2>1. LoseMemory
      BY <1>8 DEF Crash, Panic
    <2> QED
      BY <2>1, LoseMemoryParts DEF NotedInv, MutexHeld, StatusNoted, Holds
  <1>9. CASE Restart
    <2>1. /\ \A n \in SBPs : Tracked(n)' = None
          /\ \A w \in Workers : worker'[w].pc = "idle"
      BY <1>9 DEF Restart, resolverVars, DownInv, Tracked
    <2> QED
      BY <2>1 DEF NotedInv, MutexHeld, StatusNoted, Holds
  <1> QED
    BY <1>4, <1>5, <1>6, <1>7, <1>8, <1>9 DEF Next

-----------------------------------------------------------------------------
LEMMA QueueInvariant ==
  ASSUME NoRelist
  PROVE  Spec => [](TypeInv /\ QueueInv)
  <1>1. Init => TypeInv /\ QueueInv
    BY InitTyped DEF Init, WdsInit, ResolverStart, IdleWorker, Busy, Tracked, QueueInv,
       VersionsInv, UidUsed, GenerationTells, DownInv, FollowInv, Followed, Holds, SameVersion,
       NotedInv, MutexHeld, StatusNoted
  <1>2. TypeInv /\ QueueInv /\ [Next]_vars => TypeInv' /\ QueueInv'
    BY NextTyped, NextVersions, NextDown, NextFollowed, NextNoted DEF QueueInv
  <1> QED
    BY <1>1, <1>2, PTL DEF Spec

LEMMA QuietTracks ==
  ASSUME QueueInv, Quiet, NEW n \in SBPs
  PROVE  SameVersion(Tracked(n), sbp[n])
  BY DEF QueueInv, FollowInv, Followed, Holds, Quiet

(* Once every event is processed, after whatever deliveries, retries,      *)
(* crashes, edits and deletions in whatever order, the table holds the     *)
(* policies that exist, each in its last incarnation with its present      *)
(* stages, and nothing else: no event is lost on the way from the API      *)
(* server into the table.                                                  *)
THEOREM QuietTableIsTracked ==
  ASSUME NoRelist
  PROVE  Spec => []SettledTracked
  <1>1. QueueInv => SettledTracked
    BY QuietTracks DEF SettledTracked, SameVersion
  <1> QED
    BY <1>1, QueueInvariant, PTL

(* And every policy that exists then has one of its stages in its status:  *)
(* a first deployment that failed is not forgotten.                        *)
THEOREM QuietPoliciesAreNoted ==
  ASSUME NoRelist
  PROVE  Spec => []SettledNoted
  <1>1. TypeInv /\ QueueInv => SettledNoted
    <2> SUFFICES ASSUME TypeInv, QueueInv, Quiet, NEW n \in SBPs, sbp[n] # None
                 PROVE  Position(sbp[n]) > 0
      BY DEF SettledNoted
    <2>1. SameVersion(Tracked(n), sbp[n])
      BY QuietTracks
    <2>2. StatusNoted(n)
      BY DEF QueueInv, NotedInv, Noting, Holds, Quiet
    <2> DEFINE at == {i \in 1..Len(sbp[n].stages) : sbp[n].stages[i].name = sbp[n].active}
    <2>3. at # {}
      BY <2>1, <2>2 DEF SameVersion, StatusNoted
    <2>4. \E i \in at : TRUE
      BY <2>3
    <2>5. (CHOOSE i \in at : TRUE) \in at
      BY <2>4
    <2>6. \A i \in at : i > 0
      <3>1. Len(sbp[n].stages) \in Nat
        BY DEF TypeInv, WdsTypeOK, SBPObjects
      <3> QED
        BY <3>1
    <2>7. Position(sbp[n]) = CHOOSE i \in at : TRUE
      BY <2>3 DEF Position
    <2> HIDE DEF at
    <2> QED
      BY <2>5, <2>6, <2>7
  <1> QED
    BY <1>1, QueueInvariant, PTL
=============================================================================
