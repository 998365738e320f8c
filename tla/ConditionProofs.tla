---------------------------- MODULE ConditionProofs ----------------------------
(***************************************************************************)
(* Proofs about the condition of a stage: no wake-up is lost on the way    *)
(* from a Binding or a CombinedStatus to the condition that depends on it, *)
(* a stage is left only when its condition holds, and the process dies of  *)
(* a condition only as stated.                                             *)
(***************************************************************************)
EXTENDS RolloutProofs

\* The names of Bindings split into policy and stage again.
NamesSplit == OwnerOf = [k \in BPKeys |-> k[1]]

-----------------------------------------------------------------------------
(* A UID belongs to one BindingPolicy: whatever carries it in the API      *)
(* server, in a store or with a worker belongs to the same key.            *)
ReadAs(w, kind) == worker[w].pc = "read" /\ worker[w].item[1] = kind

ReportBears(k, u) == \E c \in cs \cup csCache : c.label = k /\ c.bp = u

WorkerBears(k, u) ==
    \E w \in Workers :
        \/ ReadAs(w, "bdg") /\ worker[w].item[2] = k /\ worker[w].obj.bp = u
        \/ ReadAs(w, "cs") /\ worker[w].obj.label = k /\ worker[w].obj.bp = u

Bears(k, u) ==
    \/ bp[k] # None /\ bp[k].uid = u
    \/ bdg[k] # None /\ bdg[k].bp = u
    \/ bdgCache[k] # None /\ bdgCache[k].bp = u
    \/ ReportBears(k, u)
    \/ WorkerBears(k, u)

BearersInv ==
    /\ \A k \in BPKeys, u \in Uids : Bears(k, u) => u < nextUid
    /\ \A k, l \in BPKeys, u \in Uids : Bears(k, u) /\ Bears(l, u) => k = l

(* Of an object and a UID there is one status, and a worker has a status   *)
(* of the object and UID it was sent for.                                  *)
OneStatus(S) == \A c, d \in S : c.obj = d.obj /\ c.bp = d.bp => c = d

StatusesInv ==
    /\ OneStatus(cs) /\ OneStatus(csCache)
    /\ \A w \in Workers : ReadAs(w, "cs") => worker[w].item = StatusRef(worker[w].obj.obj, worker[w].obj.bp)

(* The generation tells the workloads of one Binding apart, and a worker   *)
(* that has read an old one will be sent again.                            *)
BindingTells(k) ==
    bdg[k] # None /\ bdgCache[k] # None /\ bdg[k].bp = bdgCache[k].bp =>
        /\ bdgCache[k].gen <= bdg[k].gen
        /\ bdgCache[k].gen = bdg[k].gen => bdgCache[k].workload = bdg[k].workload

(* KubeStellar keeps the Binding of a BindingPolicy as long as it is there. *)
CachedIsBound(k) ==
    bp[k] # None /\ bdgCache[k] # None /\ bdgCache[k].bp = bp[k].uid => Current(k)

BindingsInv ==
    /\ \A k \in BPKeys : BindingTells(k) /\ CachedIsBound(k)
    /\ \A w \in Workers : ReadAs(w, "bdg") =>
          worker[w].obj = bdgCache[worker[w].item[2]] \/ worker[w].item \in dirty

-----------------------------------------------------------------------------
(* The stage the table calls active is deployed under no other UID.        *)
DeployedHasUid(n) ==
    Tracked(n) # None /\ ~Unnoted(n) /\ ~StagingUp(n) /\ StageDeployed(n, Tracked(n).activeIndex + 1)
        => HasUid(n)

(* A worker has the item, or will have.                                    *)
Comes(item) ==
    \/ item \in dirty \cup delayed
    \/ \E w \in Workers : worker[w].item = item /\ worker[w].pc \in {"dequeued", "read"}

(* The active stage's Binding, as the store has it, is noted or will be.   *)
BindingNoted(n) ==
    Tracked(n) # None /\ HasUid(n) =>
        LET seen == bdgCache[ActiveKey(n)]
        IN  seen # None /\ seen.bp = Tracked(n).activeBindingPolicyUID =>
                Comes(BindingRef(ActiveKey(n))) \/ Tracked(n).bindingSpec = seen.workload

Checked(n) == FilterWorkload(Tracked(n).bindingSpec, Stage(Tracked(n), Tracked(n).activeIndex))

Matching(n, o) ==
    {c \in csCache : c.obj = o /\ c.label = ActiveKey(n) /\ c.bp = Tracked(n).activeBindingPolicyUID}

Fulfilled(n) ==
    /\ Stage(Tracked(n), Tracked(n).activeIndex).cond
    /\ Checked(n) # {}
    /\ \A o \in Checked(n) : \E c \in Matching(n, o) : c.sat

StatusComes(n) ==
    \E o \in Checked(n) : Comes(StatusRef(o, Tracked(n).activeBindingPolicyUID))

Attempting(n) == OpOn(n) /\ op.pc = "attempt" /\ op.todo \subseteq Checked(n)

(* A fulfilled condition is being attempted or will be.                    *)
Woken(n) ==
    Tracked(n) # None /\ HasUid(n) /\ Fulfilled(n) => Attempting(n) \/ StatusComes(n)

Wakes(n) == DeployedHasUid(n) /\ BindingNoted(n) /\ Woken(n)

WakeInv == \A n \in SBPs : Wakes(n)

-----------------------------------------------------------------------------
(* Users write lists of stages that are known, and the status is all that  *)
(* the controller changes of a policy.                                     *)
ListsInv == \A n \in SBPs : sbp[n] # None => sbp[n].stages \in StageLists

LEMMA NextLists ==
  ASSUME LeftAlone, TypeInv, ListsInv, [Next]_vars
  PROVE  ListsInv'
  <1>1. WdsTypeOK /\ TableInv
    BY DEF TypeInv
  <1>2. CASE Environment
    <2> SUFFICES ASSUME NEW n \in SBPs, sbp'[n] # None PROVE sbp'[n].stages \in StageLists
      BY DEF ListsInv
    <2>1. WdsNext
      BY <1>2 DEF Environment
    <2> QED
      BY <1>1, <2>1, LeftAloneIs, UsersOnlyCreate DEF ListsInv
  <1>3. CASE Resolve
    <2>1. OpSteps
      BY <1>3 DEF Resolve
    <2>2. PICK p \in SBPs : op.sbp = p
      BY <1>1, <2>1, OpStepsBusy
    <2>3. \A n \in SBPs : SpecSame(n)
      BY <1>1, <2>1, <2>2, OpStepsSame DEF SpecSame
    <2> QED
      BY <2>3, WdsAssumption DEF SpecSame, ListsInv
  <1>4. CASE UNCHANGED sbp
    BY <1>4 DEF ListsInv
  <1> QED
    BY <1>2, <1>3, <1>4 DEF Next, Informers, DeliverPolicy, DeliverBinding, DeliverStatus, WorkerStep,
      Get, ReadLister, Reconcile, Finish, Requeue, Crash, Panic, Restart, vars, wdsVars

\* A Create past the last stage is that of a stage-up from the last stage.
LEMMA PastLastStage ==
  ASSUME TypeInv, ReadsHold, StageInv, ListsInv, <<>> \notin StageLists,
         op # None, op.pc = "create", OutOfStages(Entry)
  PROVE  LET last == Len(Entry.stages)
         IN  /\ op.staging
             /\ Entry.activeIndex = last
             /\ Position(sbp[op.sbp]) = last
             /\ ~Deployed(op.sbp, Entry.stages[last].name)
             /\ Entry.stages \in StageLists /\ Entry.stages[last].cond
  <1>1. PICK n \in SBPs : op.sbp = n
    BY ResolverAssumption DEF TypeInv, TableInv, Ops
  <1>2. OpOn(n) /\ op.pc # "return" /\ RolloutInv(n) /\ Entry = Tracked(n)
    BY <1>1 DEF OpOn, StageInv, RolloutsInv, Entry, Tracked
  <1>3. /\ sbp[n] # None /\ sbp[n] \in SBPObjects
        /\ Len(sbp[n].stages) \in Nat
        /\ Position(sbp[n]) \in 0..Len(sbp[n].stages)
        /\ Tracked(n).activeIndex \in Nat
        /\ Tracked(n).stages = sbp[n].stages
    BY <1>2, AtWork DEF StageInv
  <1>4. sbp[n].stages \in StageLists /\ Len(sbp[n].stages) # 0
    <2>1. sbp[n].stages \in StageLists
      BY <1>3 DEF ListsInv
    <2>2. sbp[n].stages \in Seq(Stages)
      BY <1>3 DEF SBPObjects
    <2> QED
      BY <2>1, <2>2
  <1>5. Tracked(n).activeIndex >= Len(sbp[n].stages)
    BY <1>2, <1>3 DEF OutOfStages
  <1>6. /\ op.staging
        /\ Tracked(n).activeIndex = Position(sbp[n])
        /\ ~StageDeployed(n, Position(sbp[n])) /\ Position(sbp[n]) \in 1..Len(sbp[n].stages)
        /\ sbp[n].stages[Position(sbp[n])].cond
    BY <1>2, <1>3, <1>4, <1>5, WhereItStands DEF StageInv
  <1>7. Position(sbp[n]) = Len(sbp[n].stages)
    BY <1>3, <1>5, <1>6
  <1> QED
    BY <1>1, <1>2, <1>3, <1>4, <1>6, <1>7 DEF StageDeployed

(* As long as policies are left alone, the process panics of one thing     *)
(* only, however often it does: a condition of the last stage that has     *)
(* come to hold, after that stage has been taken down.                     *)
THEOREM OnlyPastLastStage ==
  ASSUME LeftAlone, DistinctNames, <<>> \notin StageLists
  PROVE  Spec => PanicOnlyPastLastStage
  <1> DEFINE Past == Panic =>
                LET last == Len(Entry.stages)
                IN  /\ op.staging
                    /\ Entry.activeIndex = last
                    /\ sbp[op.sbp] # None => Position(sbp[op.sbp]) = last
                    /\ ~Deployed(op.sbp, Entry.stages[last].name)
  <1>1. Spec => [](TypeInv /\ ReadsHold /\ QueueInv /\ StageInv)
    BY StagesInvariant
  <1>2. Init => ListsInv
    BY DEF Init, WdsInit, ListsInv
  <1>3. TypeInv /\ ListsInv /\ [Next]_vars => ListsInv'
    BY NextLists
  <1>4. ASSUME TypeInv, ReadsHold, StageInv, ListsInv, [Next]_vars PROVE Past
    <2> SUFFICES ASSUME Panic
                 PROVE  LET last == Len(Entry.stages)
                        IN  /\ op.staging
                            /\ Entry.activeIndex = last
                            /\ sbp[op.sbp] # None => Position(sbp[op.sbp]) = last
                            /\ ~Deployed(op.sbp, Entry.stages[last].name)
      OBVIOUS
    <2>1. op # None /\ op.pc = "create" /\ OutOfStages(Entry)
      BY DEF Panic, Panics, At
    <2> QED
      BY <1>4, <2>1, PastLastStage
  <1>5. Spec => []ListsInv
    <2>1. Spec => []TypeInv
      BY <1>1, PTL
    <2> QED
      BY <1>2, <1>3, <2>1, PTL DEF Spec
  <1>6. Spec => [][Past]_vars
    BY <1>1, <1>4, <1>5, PTL DEF Spec
  <1> QED
    BY <1>6 DEF PanicOnlyPastLastStage

-----------------------------------------------------------------------------
(* What the steps do to Bindings, statuses and what workers have read.     *)
LEMMA OpStepsKeep ==
  ASSUME OpSteps
  PROVE  UNCHANGED <<bdg, cs, objs>>
  BY DEF OpSteps, CheckObject, DeletePrevious, CreateActive, GetPolicy, UpdateStatus, wdsVars

LEMMA KubeStellarMoves ==
  ASSUME WdsTypeOK, WdsNext
  PROVE  /\ \A k \in BPKeys :
               \/ bdg'[k] = None
               \/ bdg[k] # None /\ bdg'[k].bp = bdg[k].bp
               \/ bdg[k] = None /\ bp[k] # None /\ bdg'[k].bp = bp[k].uid
         /\ \A c \in cs' : c \in cs \/ (bdg[c.label] # None /\ c.bp = bdg[c.label].bp)
  <1>1. CASE UNCHANGED <<bdg, cs>>
    BY <1>1
  <1>2. ASSUME NEW k \in BPKeys, KsBinds(k) PROVE UNCHANGED cs /\ bdg[k] = None /\ bp[k] # None /\
           bdg' = [bdg EXCEPT ![k] = [bp |-> bp[k].uid, gen |-> 1, workload |-> objs]]
    BY <1>2 DEF KsBinds
  <1>3. ASSUME NEW k \in BPKeys, KsRebinds(k) PROVE UNCHANGED cs /\ bdg[k] # None /\
           bdg' = [bdg EXCEPT ![k].workload = objs, ![k].gen = @ + 1]
    BY <1>3 DEF KsRebinds, Current
  <1>4. ASSUME NEW k \in BPKeys, KsUnbinds(k) PROVE UNCHANGED cs /\ bdg' = [bdg EXCEPT ![k] = None]
    BY <1>4 DEF KsUnbinds
  <1>5. ASSUME NEW k \in BPKeys, NEW o \in Objects, NEW sat \in BOOLEAN, KsReports(k, o, sat)
        PROVE  UNCHANGED bdg /\ \A c \in cs' : c \in cs \/ (bdg[c.label] # None /\ c.bp = bdg[c.label].bp)
    <2> DEFINE new == [label |-> k, obj |-> o, bp |-> bdg[k].bp, sat |-> sat]
    <2>1. UNCHANGED bdg /\ bdg[k] # None /\ cs' \subseteq cs \cup {new}
      BY <1>5 DEF KsReports
    <2>2. new.label = k /\ new.bp = bdg[k].bp
      OBVIOUS
    <2> HIDE DEF new
    <2> QED
      BY <2>1, <2>2
  <1>6. ASSUME NEW c \in cs, KsRetracts(c) PROVE UNCHANGED bdg /\ cs' \subseteq cs
    BY <1>6 DEF KsRetracts
  <1>7. \A k \in BPKeys : bdg[k] # None => bdg[k] \in BindingObjects
    BY DEF WdsTypeOK
  <1>8. CASE \E k \in BPKeys : KsBinds(k)
    BY <1>2, <1>8 DEF WdsTypeOK
  <1>9. CASE \E k \in BPKeys : KsRebinds(k)
    <2> PICK k \in BPKeys : KsRebinds(k)
      BY <1>9
    <2> DEFINE old == bdg[k]
               new == [old EXCEPT !.workload = objs, !.gen = old.gen + 1]
    <2>1. UNCHANGED cs /\ old # None /\ bdg' = [bdg EXCEPT ![k] = new]
      BY <1>3
    <2>2. new.bp = old.bp
      BY <1>7, <2>1 DEF BindingObjects
    <2> HIDE DEF new
    <2>3. bdg'[k] = new /\ \A j \in BPKeys : j # k => bdg'[j] = bdg[j]
      BY <2>1 DEF WdsTypeOK
    <2> QED
      BY <2>1, <2>2, <2>3
  <1>10. CASE \E k \in BPKeys : KsUnbinds(k)
    BY <1>4, <1>10 DEF WdsTypeOK
  <1>11. CASE \E k \in BPKeys, o \in Objects, sat \in BOOLEAN : KsReports(k, o, sat)
    BY <1>5, <1>11
  <1>12. CASE \E c \in cs : KsRetracts(c)
    BY <1>6, <1>12
  <1> QED
    BY <1>1, <1>8, <1>9, <1>10, <1>11, <1>12 DEF WdsNext, UserCreates, UserEdits, UserDeletes,
      WorkloadChanges, CollectBP, KubeStellar

LEMMA DeliverBindingParts ==
  ASSUME NoRelist, TypeInv, NEW k \in BPKeys, DeliverBinding(k)
  PROVE  /\ up
         /\ \A j \in BPKeys : j # k => bdgCache'[j] = bdgCache[j]
         /\ bdgCache'[k] \in {None, bdg[k]}
         /\ bdgCache'[k] = None \/ bdgCache[k] = None \/ bdgCache[k].bp = bdg[k].bp
         /\ bdgCache[k] # bdg[k]
         /\ dirty' = IF Enqueues(bdgCache[k], bdgCache'[k]) THEN dirty \cup {BindingRef(k)} ELSE dirty
         /\ UNCHANGED <<sbp, bp, bdg, cs, objs, nextUid, resolverVars, sbpCache, csCache, delayed, worker>>
  <1> DEFINE replaced == bdgCache[k] # None /\ bdg[k] # None /\ bdgCache[k].bp # bdg[k].bp
  <1>1. PICK new \in Seen(bdgCache[k], bdg[k], replaced) :
           /\ bdgCache' = [bdgCache EXCEPT ![k] = new]
           /\ dirty' = IF Enqueues(bdgCache[k], new) THEN dirty \cup {BindingRef(k)} ELSE dirty
    BY DEF DeliverBinding
  <1>2. new \in {None, bdg[k]} /\ (replaced => new = None)
    BY DEF Seen, NoRelist
  <1>3. bdgCache \in [BPKeys -> BindingObjects \cup {None}]
    BY DEF TypeInv, CachesTyped
  <1>4. bdgCache'[k] = new /\ \A j \in BPKeys : j # k => bdgCache'[j] = bdgCache[j]
    BY <1>1, <1>3
  <1>5. /\ up /\ bdgCache[k] # bdg[k]
        /\ UNCHANGED <<sbp, bp, bdg, cs, objs, nextUid, resolverVars, sbpCache, csCache, delayed, worker>>
    BY DEF DeliverBinding
  <1> HIDE DEF replaced
  <1>6. new = None \/ bdgCache[k] = None \/ bdgCache[k].bp = bdg[k].bp
    BY <1>2 DEF replaced
  <1> QED
    BY <1>1, <1>2, <1>4, <1>5, <1>6

LEMMA ReadListerReads ==
  ASSUME WorkersTyped, NEW w \in Workers, ReadLister(w)
  PROVE  LET item == worker[w].item
         IN  /\ worker'[w].pc = "idle" =>
                   item[1] # "sbp" /\ Lookup(item) \subseteq {None}
             /\ worker'[w].pc \in {"idle", "read"}
             /\ worker'[w].pc = "read" =>
                   /\ worker'[w].item = item
                   /\ item[1] = "bdg" => worker'[w].obj = bdgCache[item[2]] /\ worker'[w].obj # None
                   /\ item[1] = "cs" => worker'[w].obj \in CachedReports(item[2][1], item[2][2])
  <1> DEFINE item == worker[w].item
             found == Lookup(item) \ {None}
  <1>1. CASE found = {} /\ item[1] # "sbp" /\ worker' = [worker EXCEPT ![w] = IdleWorker]
    BY <1>1 DEF WorkersTyped, IdleWorker, Busy
  <1>2. CASE found = {} /\ item[1] = "sbp" /\ worker' = [worker EXCEPT ![w] = Busy("read", item, None)]
    BY <1>2 DEF WorkersTyped, Busy
  <1>3. ASSUME NEW obj \in found, worker' = [worker EXCEPT ![w] = Busy("read", item, obj)]
        PROVE  /\ worker'[w].pc = "read" /\ worker'[w].item = item
               /\ item[1] = "bdg" => worker'[w].obj = bdgCache[item[2]] /\ worker'[w].obj # None
               /\ item[1] = "cs" => worker'[w].obj \in CachedReports(item[2][1], item[2][2])
    <2>1. worker'[w].pc = "read" /\ worker'[w].item = item /\ worker'[w].obj = obj
      BY <1>3 DEF WorkersTyped, Busy
    <2>2. obj # None /\ obj \in Lookup(item)
      OBVIOUS
    <2> HIDE DEF item, found
    <2> QED
      BY <2>1, <2>2 DEF Lookup
  <1> QED
    BY <1>1, <1>2, <1>3 DEF ReadLister

-----------------------------------------------------------------------------
(* Nothing carries a UID to another key, and only Create hands a key a new *)
(* one.                                                                    *)
LEMMA BearersStep ==
  ASSUME BearersInv, nextUid \in Nat, nextUid' \in Nat, nextUid <= nextUid', NEW j,
         \A k \in BPKeys, u \in Uids :
            Bears(k, u)' => Bears(k, u) \/ (k = j /\ u = nextUid /\ nextUid < nextUid')
  PROVE  BearersInv'
  <1>1. \A u \in Uids : u \in Nat
    BY DEF Uids
  <1>2. ASSUME NEW k \in BPKeys, NEW u \in Uids, Bears(k, u)' PROVE u < nextUid'
    BY <1>1, <1>2 DEF BearersInv
  <1>3. ASSUME NEW k \in BPKeys, NEW l \in BPKeys, NEW u \in Uids, Bears(k, u)', Bears(l, u)' PROVE k = l
    BY <1>1, <1>3 DEF BearersInv
  <1> QED
    BY <1>2, <1>3 DEF BearersInv

ReadsKept == \A w \in Workers : worker'[w] = worker[w] \/ worker'[w].pc # "read"

LEMMA WorkerBearsKept ==
  ASSUME ReadsKept, NEW k \in BPKeys, NEW u \in Uids, WorkerBears(k, u)'
  PROVE  WorkerBears(k, u)
  BY DEF ReadsKept, WorkerBears, ReadAs

LEMMA KeptBearers ==
  ASSUME TypeInv, BearersInv, [Next]_vars,
         \A k \in BPKeys, u \in Uids : Bears(k, u)' => Bears(k, u)
  PROVE  BearersInv'
  BY NextBpMoves, BearersStep DEF BpMoves

LEMMA ResolveBearers ==
  ASSUME LeftAlone, TypeInv, ReadsHold, BearersInv, Resolve
  PROVE  BearersInv'
  <1>1. /\ WdsTypeOK /\ TableInv /\ OpSteps /\ EndIsSure
        /\ UNCHANGED <<bdg, cs, bdgCache, csCache, worker>>
    BY LeftAloneIs, ReadsMakeSure, OpStepsKeep DEF TypeInv, Resolve, cacheVars, queueVars
  <1> PICK p \in SBPs : op.sbp = p
    BY <1>1, OpStepsBusy
  <1>2. ReadsKept
    BY <1>1 DEF ReadsKept
  <1>3. ASSUME NEW k \in BPKeys, NEW u \in Uids, Bears(k, u)'
        PROVE  Bears(k, u) \/ (bp'[k] # None /\ bp'[k].uid = u)
    BY <1>1, <1>2, <1>3, WorkerBearsKept DEF Bears, ReportBears
  <1>4. bp \in [BPKeys -> BPObjects \cup {None}] /\ nextUid \in Nat /\ nextUid # 0
    BY <1>1 DEF WdsTypeOK, Uids, NoUid
  <1>5. CASE Deploys(p)
    <2> DEFINE made == [uid |-> nextUid, owner |-> Tracked(p).uid]
    <2>1. nextUid' = nextUid + 1 /\ bp' = [bp EXCEPT ![ActiveKey(p)] = made]
      BY <1>5 DEF Deploys
    <2>2. made.uid = nextUid
      OBVIOUS
    <2> HIDE DEF made
    <2>3. \A k \in BPKeys : bp'[k] = bp[k] \/ (k = ActiveKey(p) /\ bp'[k] = made)
      BY <1>4, <2>1
    <2>4. \A k \in BPKeys, u \in Uids :
             Bears(k, u)' => Bears(k, u) \/ (k = ActiveKey(p) /\ u = nextUid /\ nextUid < nextUid')
      <3> TAKE k \in BPKeys, u \in Uids
      <3> SUFFICES ASSUME bp'[k] # None, bp'[k].uid = u
                   PROVE  Bears(k, u) \/ (k = ActiveKey(p) /\ u = nextUid /\ nextUid < nextUid')
        BY <1>3
      <3> QED
        BY <1>4, <2>1, <2>2, <2>3 DEF Bears
    <2> QED
      BY <1>4, <2>1, <2>4, BearersStep
  <1>6. CASE ~Deploys(p)
    <2>1. nextUid' = nextUid /\ \A k \in BPKeys : bp'[k] = bp[k] \/ bp'[k] = None
      BY <1>1, <1>4, <1>6, SureSteps DEF Waits, LeavesStage, Deletes, Refused, ReadsPolicy, Announces
    <2>2. \A k \in BPKeys, u \in Uids : Bears(k, u)' => Bears(k, u)
      BY <1>3, <2>1 DEF Bears
    <2> QED
      BY <1>4, <2>1, <2>2, BearersStep
  <1> QED
    BY <1>5, <1>6

LEMMA NextBearers ==
  ASSUME LeftAlone, TypeInv, ReadsHold, StatusesInv, RolloutsInv, BearersInv, [Next]_vars
  PROVE  BearersInv'
  <1>1. WdsTypeOK /\ TableInv /\ WorkersTyped /\ CachesTyped /\ NoRelist
    BY LeftAloneIs DEF TypeInv
  <1>2. CASE Resolve
    BY <1>2, ResolveBearers
  <1>3. CASE ~Resolve
    <2> SUFFICES ASSUME NEW k \in BPKeys, NEW u \in Uids, Bears(k, u)' PROVE Bears(k, u)
      BY KeptBearers
    <2>1. CASE Environment
      <3>1. WdsNext /\ UNCHANGED <<bp, bdgCache, csCache, worker>>
        BY <1>1, <2>1, NothingCollected DEF Environment, cacheVars, queueVars
      <3>2. ReadsKept
        BY <3>1 DEF ReadsKept
      <3>3. WorkerBears(k, u)' => WorkerBears(k, u)
        BY <3>2, WorkerBearsKept
      <3>4. bdg'[k] # None /\ bdg'[k].bp = u => Bears(k, u)
        BY <1>1, <3>1, KubeStellarMoves DEF Bears
      <3>5. ReportBears(k, u)' => Bears(k, u)
        BY <1>1, <3>1, KubeStellarMoves DEF Bears, ReportBears
      <3> QED
        BY <3>1, <3>3, <3>4, <3>5 DEF Bears
    <2>2. ASSUME NEW j \in BPKeys, DeliverBinding(j) PROVE Bears(k, u)
      <3>1. UNCHANGED <<bp, bdg, cs, csCache, worker>> /\ bdgCache'[k] \in {None, bdg[k], bdgCache[k]}
        BY <1>1, <2>2, DeliverBindingParts
      <3>2. ReadsKept
        BY <3>1 DEF ReadsKept
      <3> QED
        BY <3>1, <3>2, WorkerBearsKept DEF Bears, ReportBears
    <2>3. ASSUME NEW o \in Objects, NEW v \in 1..(nextUid - 1), DeliverStatus(o, v) PROVE Bears(k, u)
      <3>1. UNCHANGED <<bp, bdg, cs, bdgCache, worker>> /\ csCache' \subseteq csCache \cup cs
        BY <2>3 DEF DeliverStatus, Reports, wdsVars
      <3>2. ReadsKept
        BY <3>1 DEF ReadsKept
      <3> QED
        BY <3>1, <3>2, WorkerBearsKept DEF Bears, ReportBears
    <2>4. ASSUME NEW w \in Workers, WorkerStep(w) PROVE Bears(k, u)
      <3>1. UNCHANGED <<bp, bdg, cs, bdgCache, csCache>>
        BY <2>4 DEF WorkerStep, Get, ReadLister, Reconcile, Finish, wdsVars, cacheVars
      <3>2. CASE ReadLister(w)
        <4> SUFFICES ASSUME WorkerBears(k, u)' PROVE Bears(k, u)
          BY <3>1 DEF Bears, ReportBears
        <4>1. PICK v \in Workers :
                 \/ ReadAs(v, "bdg")' /\ worker'[v].item[2] = k /\ worker'[v].obj.bp = u
                 \/ ReadAs(v, "cs")' /\ worker'[v].obj.label = k /\ worker'[v].obj.bp = u
          BY DEF WorkerBears
        <4>2. CASE v # w
          <5>1. worker'[v] = worker[v]
            BY <1>1, <3>2, <4>2, ReadListerParts
          <5> QED
            BY <4>1, <5>1 DEF Bears, WorkerBears, ReadAs
        <4>3. CASE v = w
          <5>1. /\ worker'[w].item[1] = "bdg" =>
                      worker'[w].obj = bdgCache[worker'[w].item[2]] /\ worker'[w].obj # None
                /\ worker'[w].item[1] = "cs" => worker'[w].obj \in csCache
            BY <1>1, <3>2, <4>1, <4>3, ReadListerReads DEF ReadAs, CachedReports
          <5> QED
            BY <4>1, <4>3, <5>1 DEF Bears, ReportBears, ReadAs
        <4> QED
          BY <4>2, <4>3
      <3>3. CASE ~ReadLister(w)
        <4>1. ReadsKept
          <5>1. ASSUME NEW item \in dirty, Get(w, item) PROVE ReadsKept
            <6>1. item \in Items /\ item # None
              BY ControllerAssumption DEF TypeInv, QueueTyped
            <6> QED
              BY <1>1, <5>1, <6>1, GetParts DEF ReadsKept
          <5>2. CASE Reconcile(w) \/ Finish(w)
            BY <1>1, <5>2, ReconcileMoves, FinishMoves DEF ReadsKept
          <5> QED
            BY <2>4, <3>3, <5>1, <5>2 DEF WorkerStep
        <4> QED
          BY <3>1, <4>1, WorkerBearsKept DEF Bears, ReportBears
      <3> QED
        BY <3>2, <3>3
    <2>5. CASE \/ \E n \in SBPs : DeliverPolicy(n)
               \/ \E item \in delayed : Requeue(item)
               \/ UNCHANGED vars
      <3>1. UNCHANGED <<bp, bdg, cs, bdgCache, csCache, worker>>
        BY <2>5 DEF DeliverPolicy, Requeue, vars, wdsVars, cacheVars, queueVars
      <3>2. ReadsKept
        BY <3>1 DEF ReadsKept
      <3> QED
        BY <3>1, <3>2, WorkerBearsKept DEF Bears, ReportBears
    <2>6. CASE Restart
      <3>1. UNCHANGED <<bp, bdg, cs, worker>> /\ bdgCache' = bdg /\ csCache' = cs
        BY <2>6 DEF Restart, wdsVars
      <3>2. ReadsKept
        BY <3>1 DEF ReadsKept
      <3> QED
        BY <3>1, <3>2, WorkerBearsKept DEF Bears, ReportBears
    <2>7. CASE Crash \/ Panic
      <3>1. LoseMemory /\ UNCHANGED <<bp, bdg, cs>>
        BY <2>7 DEF Crash, Panic, wdsVars
      <3>2. bdgCache'[k] = None /\ csCache' = {}
        BY <3>1 DEF LoseMemory
      <3>3. ReadsKept
        BY <3>1, LoseMemoryParts DEF ReadsKept
      <3> QED
        BY <3>1, <3>2, <3>3, WorkerBearsKept DEF Bears, ReportBears
    <2> QED
      BY <1>3, <2>1, <2>2, <2>3, <2>4, <2>5, <2>6, <2>7 DEF Next, Informers
  <1> QED
    BY <1>2, <1>3

-----------------------------------------------------------------------------
(* Statuses and Bindings.                                                  *)
LEMMA ItemForms ==
  ASSUME NEW item \in Items
  PROVE  /\ item[1] = "bdg" => item = BindingRef(item[2]) /\ item[2] \in BPKeys
         /\ item[1] = "cs" => item = StatusRef(item[2][1], item[2][2])
  BY DEF Items, BindingRef, StatusRef

LEMMA ReadsTyped ==
  ASSUME WorkersTyped, NEW w \in Workers
  PROVE  /\ ReadAs(w, "bdg") => worker[w].item \in Items /\ worker[w].obj \in BindingObjects
         /\ ReadAs(w, "cs") => worker[w].item \in Items /\ worker[w].obj \in CombinedStatuses
  BY DEF ReadAs, WorkersTyped, WorkerOK, Found

LEMMA NextStatuses ==
  ASSUME TypeInv, StatusesInv, [Next]_vars
  PROVE  StatusesInv'
  <1>1. WorkersTyped /\ WorkersTyped'
    <2>1. TypeInv'
      BY NextTyped
    <2> QED
      BY <2>1 DEF TypeInv
  <1>2. OneStatus(cs)'
    <2>1. CASE UNCHANGED cs
      BY <2>1 DEF StatusesInv, OneStatus
    <2>2. ASSUME NEW k \in BPKeys, NEW o \in Objects, NEW sat \in BOOLEAN, KsReports(k, o, sat)
          PROVE  OneStatus(cs)'
      <3> DEFINE new == [label |-> k, obj |-> o, bp |-> bdg[k].bp, sat |-> sat]
      <3>1. cs' = (cs \ Reports(o, bdg[k].bp)) \cup {new}
        BY <2>2 DEF KsReports
      <3>2. new.obj = o /\ new.bp = bdg[k].bp
        OBVIOUS
      <3> HIDE DEF new
      <3> QED
        BY <3>1, <3>2 DEF StatusesInv, OneStatus, Reports
    <2>3. ASSUME NEW c \in cs, KsRetracts(c) PROVE OneStatus(cs)'
      BY <2>3 DEF KsRetracts, StatusesInv, OneStatus
    <2>4. CASE Environment
      BY <2>1, <2>2, <2>3, <2>4 DEF Environment, WdsNext, UserCreates, UserEdits, UserDeletes,
        WorkloadChanges, CollectBP, KubeStellar, KsBinds, KsRebinds, KsUnbinds
    <2>5. CASE Resolve
      BY <2>1, <2>5, OpStepsKeep DEF Resolve
    <2> QED
      BY <2>1, <2>4, <2>5 DEF Next, Informers, DeliverPolicy, DeliverBinding, DeliverStatus, WorkerStep,
        Get, ReadLister, Reconcile, Finish, Requeue, Crash, Panic, Restart, vars, wdsVars
  <1>3. OneStatus(csCache)'
    <2>1. CASE UNCHANGED csCache
      BY <2>1 DEF StatusesInv, OneStatus
    <2>2. ASSUME NEW o \in Objects, NEW u \in 1..(nextUid - 1), DeliverStatus(o, u) PROVE OneStatus(csCache)'
      BY <2>2 DEF DeliverStatus, StatusesInv, OneStatus, Reports, CachedReports
    <2>3. CASE Crash \/ Panic
      BY <2>3 DEF Crash, Panic, LoseMemory, OneStatus
    <2>4. CASE Restart
      BY <2>4 DEF Restart, StatusesInv, OneStatus
    <2> QED
      BY <2>1, <2>2, <2>3, <2>4 DEF Next, Environment, Informers, DeliverPolicy, DeliverBinding, WorkerStep,
        Get, ReadLister, Reconcile, Finish, Resolve, Requeue, vars, cacheVars
  <1>4. ASSUME NEW v \in Workers, ReadAs(v, "cs")'
        PROVE  worker'[v].item = StatusRef(worker'[v].obj.obj, worker'[v].obj.bp)
    <2>1. CASE worker'[v] = worker[v]
      BY <1>4, <2>1 DEF ReadAs, StatusesInv
    <2>2. ASSUME ReadLister(v) PROVE worker'[v].item = StatusRef(worker'[v].obj.obj, worker'[v].obj.bp)
      <3>1. worker'[v].obj \in CachedReports(worker'[v].item[2][1], worker'[v].item[2][2])
        BY <1>1, <1>4, <2>2, ReadListerReads DEF ReadAs
      <3>2. worker'[v].item = StatusRef(worker'[v].item[2][1], worker'[v].item[2][2])
        BY <1>1, <1>4, ReadsTyped, ItemForms DEF ReadAs, WorkersTyped, WorkerOK
      <3> QED
        BY <3>1, <3>2 DEF CachedReports
    <2>3. ASSUME NEW w \in Workers, WorkerStep(w) PROVE worker'[v] = worker[v] \/ ReadLister(v)
      <3>1. ASSUME NEW item \in dirty, Get(w, item) PROVE worker'[v] = worker[v]
        <4>1. item \in Items /\ item # None
          BY ControllerAssumption DEF TypeInv, QueueTyped
        <4> QED
          BY <1>1, <1>4, <3>1, <4>1, GetParts DEF ReadAs
      <3>2. CASE ReadLister(w)
        BY <1>1, <3>2, ReadListerParts
      <3>3. CASE Reconcile(w) \/ Finish(w)
        BY <1>1, <1>4, <3>3, ReconcileMoves, FinishMoves DEF ReadAs
      <3> QED
        BY <2>3, <3>1, <3>2, <3>3 DEF WorkerStep
    <2>4. CASE Crash \/ Panic
      BY <1>4, <2>4, LoseMemoryParts DEF Crash, Panic, ReadAs
    <2> QED
      BY <2>1, <2>2, <2>3, <2>4 DEF Next, Environment, Informers, DeliverPolicy, DeliverBinding, DeliverStatus,
        Resolve, Requeue, Restart, vars, queueVars
  <1> QED
    BY <1>2, <1>3, <1>4 DEF StatusesInv

\* No change of a Binding is within a generation: each is handed to a worker.
LEMMA BindingEnqueued ==
  ASSUME NoRelist, TypeInv, BindingsInv, NEW k \in BPKeys, DeliverBinding(k)
  PROVE  dirty' = dirty \cup {BindingRef(k)}
  <1>1. /\ bdgCache'[k] \in {None, bdg[k]}
        /\ bdgCache'[k] = None \/ bdgCache[k] = None \/ bdgCache[k].bp = bdg[k].bp
        /\ bdgCache[k] # bdg[k]
        /\ dirty' = IF Enqueues(bdgCache[k], bdgCache'[k]) THEN dirty \cup {BindingRef(k)} ELSE dirty
    BY DeliverBindingParts
  <1>2. bdg[k] \in BindingObjects \cup {None} /\ bdgCache[k] \in BindingObjects \cup {None}
    BY DEF TypeInv, WdsTypeOK, CachesTyped
  <1>3. SUFFICES ASSUME bdgCache[k] # None, bdgCache'[k] # None, bdgCache[k].gen = bdg[k].gen
                 PROVE  FALSE
    BY <1>1 DEF Enqueues
  <1>4. bdg[k] # None /\ bdgCache[k].bp = bdg[k].bp
    BY <1>1, <1>3
  <1>5. bdgCache[k].workload = bdg[k].workload
    BY <1>3, <1>4 DEF BindingsInv, BindingTells
  <1> QED
    BY <1>1, <1>2, <1>3, <1>4, <1>5 DEF BindingObjects

LEMMA KsKeepsBindings ==
  ASSUME TypeInv, BindingsInv, WdsNext, UNCHANGED <<bp, bdgCache>>, NEW k \in BPKeys
  PROVE  BindingTells(k)' /\ CachedIsBound(k)'
  <1>1. BindingTells(k) /\ CachedIsBound(k)
    BY DEF BindingsInv
  <1>2. /\ bdg \in [BPKeys -> BindingObjects \cup {None}]
        /\ bdgCache[k] # None => bdgCache[k].gen \in Nat
    BY DEF TypeInv, WdsTypeOK, CachesTyped, BindingObjects
  <1>3. CASE bdg'[k] = bdg[k]
    BY <1>1, <1>3 DEF BindingTells, CachedIsBound, Current
  <1>4. CASE KsBinds(k)
    <2> DEFINE new == [bp |-> bp[k].uid, gen |-> 1, workload |-> objs]
    <2>1. bp[k] # None /\ bdg[k] = None /\ bdg'[k] = new
      BY <1>2, <1>4 DEF KsBinds
    <2>2. new.bp = bp[k].uid /\ new # None
      <3>1. new \in BindingObjects
        BY <2>1 DEF TypeInv, WdsTypeOK, BPObjects, BindingObjects
      <3> QED
        BY <3>1, WdsAssumption
    <2> HIDE DEF new
    <2> QED
      BY <1>1, <2>1, <2>2 DEF BindingTells, CachedIsBound, Current
  <1>5. CASE KsRebinds(k)
    <2> DEFINE old == bdg[k]
               new == [old EXCEPT !.workload = objs, !.gen = old.gen + 1]
    <2>1. old # None /\ bp[k] # None /\ old.bp = bp[k].uid
      BY <1>5 DEF KsRebinds, Current
    <2>2. old \in BindingObjects
      BY <1>2, <2>1
    <2>3. bdg'[k] = new
      BY <1>2, <1>5 DEF KsRebinds
    <2>4. new.bp = old.bp /\ new.gen = old.gen + 1 /\ new # None /\ old.gen \in Nat
      <3>1. new.bp = old.bp /\ new.gen = old.gen + 1 /\ old.gen \in Nat
        BY <2>2 DEF BindingObjects
      <3>2. new \in BindingObjects
        <4>1. objs \in SUBSET Objects
          BY DEF TypeInv, WdsTypeOK
        <4>2. \A b \in BindingObjects, W \in SUBSET Objects :
                 [b EXCEPT !.workload = W] \in BindingObjects
          BY DEF BindingObjects
        <4>3. \A b \in BindingObjects : [b EXCEPT !.gen = b.gen + 1] \in BindingObjects
          BY DEF BindingObjects
        <4> DEFINE refilled == [old EXCEPT !.workload = objs]
        <4>4. refilled \in BindingObjects /\ refilled.gen = old.gen
          BY <2>2, <4>1, <4>2 DEF BindingObjects
        <4>5. new = [refilled EXCEPT !.gen = refilled.gen + 1]
          BY <2>2, <4>4 DEF BindingObjects
        <4> HIDE DEF refilled, new
        <4> QED
          BY <4>3, <4>4, <4>5
      <3> QED
        BY <3>1, <3>2, WdsAssumption
    <2> HIDE DEF new
    <2> QED
      BY <1>1, <1>2, <2>1, <2>3, <2>4 DEF BindingTells, CachedIsBound, Current
  <1>6. CASE KsUnbinds(k)
    <2>1. ~Current(k) /\ bdg'[k] = None
      BY <1>2, <1>6 DEF KsUnbinds
    <2> QED
      BY <1>1, <2>1 DEF BindingTells, CachedIsBound
  <1>7. ASSUME bdg'[k] # bdg[k] PROVE KsBinds(k) \/ KsRebinds(k) \/ KsUnbinds(k)
    <2>1. PICK j \in BPKeys : KsBinds(j) \/ KsRebinds(j) \/ KsUnbinds(j)
      BY <1>7 DEF WdsNext, UserCreates, UserEdits, UserDeletes, WorkloadChanges, CollectBP, KubeStellar,
        KsReports, KsRetracts
    <2> QED
      BY <1>2, <1>7, <2>1 DEF KsBinds, KsRebinds, KsUnbinds
  <1> QED
    BY <1>3, <1>4, <1>5, <1>6, <1>7

LEMMA NextBindings ==
  ASSUME LeftAlone, TypeInv, DownInv, ReadsHold, RolloutsInv, BearersInv, BindingsInv, [Next]_vars
  PROVE  BindingsInv'
  <1>1. WdsTypeOK /\ TableInv /\ WorkersTyped /\ WorkersTyped' /\ NoRelist
    <2>1. TypeInv'
      BY NextTyped
    <2> QED
      BY <2>1, LeftAloneIs DEF TypeInv
  <1> DEFINE Fresh(w) == ReadAs(w, "bdg") =>
                worker[w].obj = bdgCache[worker[w].item[2]] \/ worker[w].item \in dirty
             Tells(k) == BindingTells(k) /\ CachedIsBound(k)
  <1>2. ASSUME NEW k \in BPKeys PROVE Tells(k)'
    <2>1. Tells(k)
      BY DEF BindingsInv
    <2>2. CASE Environment
      BY <1>1, <2>2, NothingCollected, KsKeepsBindings DEF Environment, cacheVars
    <2>3. CASE UNCHANGED <<bp, bdg>> /\ bdgCache'[k] = bdgCache[k]
      BY <2>1, <2>3 DEF BindingTells, CachedIsBound, Current
    <2>4. CASE UNCHANGED <<bp, bdg>> /\ bdgCache'[k] \in {None, bdg[k]}
      <3>1. bdg[k] # None => bdg[k].gen \in Nat
        BY <1>1 DEF WdsTypeOK, BindingObjects
      <3> QED
        BY <2>4, <3>1 DEF BindingTells, CachedIsBound, Current
    <2>5. CASE Resolve
      <3>1. OpSteps /\ EndIsSure /\ UNCHANGED <<bdg, bdgCache>>
        BY <2>5, LeftAloneIs, ReadsMakeSure, OpStepsKeep DEF Resolve, cacheVars
      <3>2. PICK p \in SBPs : op.sbp = p
        BY <1>1, <3>1, OpStepsBusy
      <3>3. bp \in [BPKeys -> BPObjects \cup {None}]
        BY <1>1 DEF WdsTypeOK
      <3>4. bp'[k] = bp[k] \/ bp'[k] = None \/ (bp'[k] # None /\ bp'[k].uid = nextUid)
        <4>1. CASE Deploys(p)
          <5> DEFINE made == [uid |-> nextUid, owner |-> Tracked(p).uid]
          <5>1. bp' = [bp EXCEPT ![ActiveKey(p)] = made]
            BY <4>1 DEF Deploys
          <5>2. made.uid = nextUid
            OBVIOUS
          <5> HIDE DEF made
          <5> QED
            BY <3>3, <5>1, <5>2
        <4>2. CASE ~Deploys(p)
          BY <1>1, <3>1, <3>2, <3>3, <4>2, SureSteps
          DEF Waits, LeavesStage, Deletes, Refused, ReadsPolicy, Announces
        <4> QED
          BY <4>1, <4>2
      <3>5. bdgCache[k] # None => bdgCache[k].bp # nextUid
        <4> SUFFICES ASSUME bdgCache[k] # None, bdgCache[k].bp = nextUid PROVE FALSE
          OBVIOUS
        <4>1. nextUid \in Uids /\ Bears(k, nextUid)
          BY <1>1 DEF WdsTypeOK, Bears
        <4> QED
          BY <4>1 DEF BearersInv, Uids
      <3>6. CASE bp'[k] = bp[k] \/ bp'[k] = None
        BY <2>1, <3>1, <3>6 DEF BindingTells, CachedIsBound, Current
      <3>7. CASE bp'[k] # None /\ bp'[k].uid = nextUid
        BY <2>1, <3>1, <3>5, <3>7 DEF BindingTells, CachedIsBound
      <3> QED
        BY <3>4, <3>6, <3>7
    <2>6. ASSUME NEW j \in BPKeys, DeliverBinding(j) PROVE Tells(k)'
      BY <1>1, <2>3, <2>4, <2>6, DeliverBindingParts
    <2>7. CASE Restart
      BY <2>4, <2>7 DEF Restart, wdsVars
    <2>8. CASE Crash \/ Panic
      BY <2>4, <2>8 DEF Crash, Panic, LoseMemory, wdsVars
    <2> QED
      BY <2>2, <2>3, <2>5, <2>6, <2>7, <2>8 DEF Next, Informers, DeliverPolicy, DeliverStatus, WorkerStep,
        Get, ReadLister, Reconcile, Finish, Requeue, vars, wdsVars, cacheVars
  <1>3. ASSUME NEW v \in Workers PROVE Fresh(v)'
    <2>1. Fresh(v)
      BY DEF BindingsInv
    <2>2. CASE worker'[v] = worker[v] /\ bdgCache' = bdgCache /\ dirty \subseteq dirty'
      BY <2>1, <2>2 DEF ReadAs
    <2>3. CASE worker'[v].pc # "read"
      BY <2>3 DEF ReadAs
    <2>4. ASSUME NEW k \in BPKeys, DeliverBinding(k) PROVE Fresh(v)'
      <3>1. /\ worker'[v] = worker[v] /\ \A j \in BPKeys : j # k => bdgCache'[j] = bdgCache[j]
            /\ dirty' = dirty \cup {BindingRef(k)}
        BY <1>1, <2>4, DeliverBindingParts, BindingEnqueued
      <3>2. ReadAs(v, "bdg") => worker[v].item = BindingRef(worker[v].item[2]) /\ worker[v].item[2] \in BPKeys
        BY <1>1, ReadsTyped, ItemForms DEF ReadAs
      <3> QED
        BY <2>1, <3>1, <3>2 DEF ReadAs
    <2>5. ASSUME NEW w \in Workers, WorkerStep(w) PROVE Fresh(v)'
      <3>1. UNCHANGED bdgCache
        BY <2>5 DEF WorkerStep, Get, ReadLister, Reconcile, Finish, cacheVars
      <3>2. ASSUME NEW item \in dirty, Get(w, item) PROVE Fresh(v)'
        <4>1. item \in Items /\ item # None
          BY ControllerAssumption DEF TypeInv, QueueTyped
        <4>2. /\ worker'[v].pc # "read" \/ worker'[v] = worker[v]
              /\ worker[v].item # item /\ dirty' = dirty \ {item}
          BY <1>1, <3>2, <4>1, GetParts
        <4> QED
          BY <2>1, <2>3, <3>1, <4>2 DEF ReadAs
      <3>3. CASE ReadLister(w)
        <4>1. UNCHANGED dirty /\ (v # w => worker'[v] = worker[v])
          BY <1>1, <3>3, ReadListerParts
        <4>2. v = w /\ ReadAs(v, "bdg")' => worker'[v].obj = bdgCache[worker'[v].item[2]]
          BY <1>1, <3>3, ReadListerReads DEF ReadAs
        <4> QED
          BY <2>2, <3>1, <4>1, <4>2
      <3>4. CASE Reconcile(w) \/ Finish(w)
        BY <1>1, <2>2, <2>3, <3>1, <3>4, ReconcileMoves, FinishMoves
      <3> QED
        BY <2>5, <3>2, <3>3, <3>4 DEF WorkerStep
    <2>6. CASE Restart
      BY <2>3, <2>6 DEF Restart, DownInv
    <2>7. CASE Crash \/ Panic
      BY <2>3, <2>7, LoseMemoryParts DEF Crash, Panic
    <2>8. CASE Environment \/ Resolve \/ UNCHANGED vars
      BY <2>2, <2>8 DEF Environment, Resolve, vars, cacheVars, queueVars
    <2>9. ASSUME NEW item \in delayed, Requeue(item) PROVE Fresh(v)'
      BY <2>2, <2>9 DEF Requeue, cacheVars
    <2>10. ASSUME NEW n \in SBPs, DeliverPolicy(n) PROVE Fresh(v)'
      <3>1. UNCHANGED <<worker, bdgCache>> /\ dirty \subseteq dirty'
        BY <2>10 DEF DeliverPolicy
      <3> QED
        BY <2>2, <3>1
    <2>11. ASSUME NEW o \in Objects, NEW u \in 1..(nextUid - 1), DeliverStatus(o, u) PROVE Fresh(v)'
      BY <2>2, <2>11 DEF DeliverStatus
    <2> QED
      BY <2>4, <2>5, <2>6, <2>7, <2>8, <2>9, <2>10, <2>11 DEF Next, Informers
  <1> QED
    BY <1>2, <1>3 DEF BindingsInv

-----------------------------------------------------------------------------
(* Wake-ups.                                                               *)

\* What a policy's wake-up depends on, its queue, stores and call apart.
SameDuty(n) ==
    /\ Tracked(n)' = Tracked(n)
    /\ sbp[n] # None => sbp'[n] # None /\ sbp'[n].stages = sbp[n].stages
    /\ sbp[n] = None => sbp'[n] = None
    /\ \A name \in StageNames : bp'[<<n, name>>] = bp[<<n, name>>]

LEMMA HasUidBears ==
  ASSUME TypeInv, CopiesInv, NEW n \in SBPs, Tracked(n) # None, HasUid(n)
  PROVE  /\ Tracked(n) \in Entries /\ sbp[n] # None
         /\ Tracked(n).activeIndex < Len(Tracked(n).stages)
         /\ ActiveKey(n) = <<n, ActiveName(n)>> /\ ActiveName(n) \in StageNames
         /\ ActiveKey(n) \in BPKeys
         /\ Tracked(n).activeBindingPolicyUID \in Uids
         /\ Bears(ActiveKey(n), Tracked(n).activeBindingPolicyUID)
  <1> DEFINE i == Tracked(n).activeIndex
  <1>1. i + 1 \in 1..Len(sbp[n].stages) /\ Deployed(n, sbp[n].stages[i + 1].name)
    BY DEF HasUid, StageDeployed
  <1>2. sbp[n] # None /\ Tracked(n).stages = sbp[n].stages
    BY DEF CopiesInv, CopyOf, SameVersion
  <1>3. Tracked(n) \in Entries /\ sbp[n] \in SBPObjects
    BY <1>2 DEF TypeInv, TableInv, WdsTypeOK, Tracked
  <1>4. i \in Nat /\ Len(sbp[n].stages) \in Nat
    BY <1>3 DEF Entries, SBPObjects
  <1>5. sbp[n].stages[i + 1] \in Stages
    BY <1>1, <1>3, <1>4 DEF SBPObjects
  <1>6. ActiveName(n) = sbp[n].stages[i + 1].name /\ ActiveName(n) \in StageNames
    BY <1>2, <1>5 DEF ActiveName, Stage, Stages
  <1>7. ActiveKey(n) = <<n, ActiveName(n)>> /\ ActiveKey(n) \in BPKeys
    BY <1>6 DEF ActiveKey, Key, ActiveName, BPKeys
  <1>8. bp[ActiveKey(n)] # None /\ bp[ActiveKey(n)].uid = Tracked(n).activeBindingPolicyUID
    BY <1>1, <1>6, <1>7 DEF Deployed, HasUid, ActiveKey
  <1>9. bp[ActiveKey(n)].uid \in Uids
    BY <1>7, <1>8 DEF TypeInv, WdsTypeOK, BPObjects
  <1> QED
    BY <1>1, <1>2, <1>3, <1>4, <1>6, <1>7, <1>8, <1>9 DEF Bears

LEMMA DutyKept ==
  ASSUME TypeInv, CopiesInv, NEW n \in SBPs, Tracked(n) # None, SameDuty(n)
  PROVE  /\ ActiveKey(n)' = ActiveKey(n)
         /\ Checked(n)' = Checked(n)
         /\ \A j : StageDeployed(n, j)' <=> StageDeployed(n, j)
         /\ HasUid(n)' <=> HasUid(n)
         /\ Unnoted(n)' <=> Unnoted(n)
  <1>1. Tracked(n)' = Tracked(n)
    BY DEF SameDuty
  <1>2. ActiveKey(n)' = ActiveKey(n) /\ Checked(n)' = Checked(n) /\ (Unnoted(n)' <=> Unnoted(n))
    BY <1>1 DEF ActiveKey, Key, Stage, Checked, Unnoted
  <1>3. sbp[n] # None /\ sbp'[n] # None /\ sbp'[n].stages = sbp[n].stages /\ sbp[n] \in SBPObjects
    BY DEF CopiesInv, CopyOf, SameVersion, SameDuty, TypeInv, WdsTypeOK
  <1>4. ASSUME NEW j PROVE StageDeployed(n, j)' <=> StageDeployed(n, j)
    <2>1. j \in 1..Len(sbp[n].stages) => sbp[n].stages[j].name \in StageNames
      BY <1>3, StageNameTyped DEF TypeInv
    <2> QED
      BY <1>3, <2>1 DEF StageDeployed, Deployed, SameDuty
  <1>5. HasUid(n)' <=> HasUid(n)
    <2> DEFINE i == Tracked(n).activeIndex
    <2>1. StageDeployed(n, i + 1)' <=> StageDeployed(n, i + 1)
      BY <1>1, <1>3, <1>4 DEF StageDeployed, Deployed
    <2>2. CASE ~StageDeployed(n, i + 1)
      BY <2>1, <2>2 DEF HasUid
    <2>3. CASE StageDeployed(n, i + 1)
      <3>1. i + 1 \in 1..Len(sbp[n].stages) /\ Tracked(n).stages = sbp[n].stages
        BY <2>3 DEF StageDeployed, CopiesInv, CopyOf, SameVersion
      <3>2. sbp[n].stages[i + 1].name \in StageNames
        BY <1>3, <3>1, StageNameTyped DEF TypeInv
      <3>3. bp'[ActiveKey(n)] = bp[ActiveKey(n)]
        BY <3>1, <3>2 DEF SameDuty, ActiveKey, Key, Stage
      <3> QED
        BY <1>1, <1>2, <2>1, <3>3 DEF HasUid, ActiveKey
    <2> QED
      BY <2>2, <2>3
  <1> QED
    BY <1>2, <1>4, <1>5

LEMMA WakesKept ==
  ASSUME TypeInv, CopiesInv, NEW n \in SBPs, Wakes(n), SameDuty(n),
         UNCHANGED csCache,
         (StagingUp(n)' <=> StagingUp(n)) \/ HasUid(n),
         HasUid(n) /\ Tracked(n) # None =>
            /\ \/ Comes(BindingRef(ActiveKey(n)))'
               \/ /\ bdgCache'[ActiveKey(n)] = bdgCache[ActiveKey(n)]
                  /\ Comes(BindingRef(ActiveKey(n))) /\ bdgCache[ActiveKey(n)] # None
                        /\ bdgCache[ActiveKey(n)].bp = Tracked(n).activeBindingPolicyUID =>
                        Comes(BindingRef(ActiveKey(n)))'
            /\ Fulfilled(n) /\ (Attempting(n) \/ StatusComes(n)) => Attempting(n)' \/ StatusComes(n)'
  PROVE  Wakes(n)'
  <1>1. CASE Tracked(n) = None
    BY <1>1 DEF SameDuty, Wakes, DeployedHasUid, BindingNoted, Woken
  <1>2. CASE Tracked(n) # None
    <2>1. /\ Tracked(n)' = Tracked(n) /\ ActiveKey(n)' = ActiveKey(n) /\ Checked(n)' = Checked(n)
          /\ \A j : StageDeployed(n, j)' <=> StageDeployed(n, j)
          /\ (HasUid(n)' <=> HasUid(n)) /\ (Unnoted(n)' <=> Unnoted(n))
      BY <1>2, DutyKept DEF SameDuty
    <2>2. DeployedHasUid(n)'
      <3>1. StageDeployed(n, Tracked(n).activeIndex + 1)' => StageDeployed(n, Tracked(n).activeIndex + 1)
        <4> DEFINE j == Tracked(n).activeIndex + 1
        <4>1. j' = j
          BY <2>1
        <4> QED
          BY <2>1, <4>1 DEF StageDeployed, Deployed
      <3> SUFFICES ASSUME ~Unnoted(n)', ~StagingUp(n)', StageDeployed(n, Tracked(n).activeIndex + 1)'
                   PROVE  HasUid(n)'
        BY DEF DeployedHasUid
      <3> QED
        BY <1>2, <2>1, <3>1 DEF Wakes, DeployedHasUid
    <2>3. BindingNoted(n)'
      BY <1>2, <2>1 DEF Wakes, BindingNoted
    <2>4. Woken(n)'
      <3>1. Fulfilled(n)' => Fulfilled(n)
        BY <2>1 DEF Fulfilled, Matching, Stage
      <3> QED
        BY <1>2, <2>1, <3>1 DEF Wakes, Woken
    <2> QED
      BY <2>2, <2>3, <2>4 DEF Wakes
  <1> QED
    BY <1>1, <1>2

\* The items that an active stage may depend on.
Needed(n, item) ==
    \/ /\ item = BindingRef(ActiveKey(n)) /\ bdgCache[ActiveKey(n)] # None
       /\ bdgCache[ActiveKey(n)].bp = Tracked(n).activeBindingPolicyUID
    \/ /\ Fulfilled(n)
       /\ \E o \in Checked(n) : item = StatusRef(o, Tracked(n).activeBindingPolicyUID)

LEMMA WakesSame ==
  ASSUME TypeInv, CopiesInv, NEW n \in SBPs, Wakes(n), SameDuty(n),
         UNCHANGED csCache,
         (StagingUp(n)' <=> StagingUp(n)) \/ HasUid(n),
         Attempting(n) => UNCHANGED op,
         \A k \in BPKeys : bdgCache'[k] = bdgCache[k] \/ BindingRef(k) \in dirty',
         \A item : Tracked(n) # None /\ HasUid(n) /\ Needed(n, item) /\ Comes(item) => Comes(item)'
  PROVE  Wakes(n)'
  <1> SUFFICES ASSUME Tracked(n) # None, HasUid(n)
               PROVE  /\ \/ Comes(BindingRef(ActiveKey(n)))'
                         \/ /\ bdgCache'[ActiveKey(n)] = bdgCache[ActiveKey(n)]
                            /\ Comes(BindingRef(ActiveKey(n))) /\ bdgCache[ActiveKey(n)] # None
                                  /\ bdgCache[ActiveKey(n)].bp = Tracked(n).activeBindingPolicyUID =>
                                  Comes(BindingRef(ActiveKey(n)))'
                      /\ Fulfilled(n) /\ (Attempting(n) \/ StatusComes(n)) => Attempting(n)' \/ StatusComes(n)'
    BY WakesKept
  <1>1. /\ Tracked(n)' = Tracked(n) /\ ActiveKey(n)' = ActiveKey(n) /\ Checked(n)' = Checked(n)
        /\ ActiveKey(n) \in BPKeys
    BY DutyKept, HasUidBears DEF SameDuty
  <1>2. \/ Comes(BindingRef(ActiveKey(n)))'
        \/ /\ bdgCache'[ActiveKey(n)] = bdgCache[ActiveKey(n)]
           /\ Comes(BindingRef(ActiveKey(n))) /\ bdgCache[ActiveKey(n)] # None
                 /\ bdgCache[ActiveKey(n)].bp = Tracked(n).activeBindingPolicyUID =>
                 Comes(BindingRef(ActiveKey(n)))'
    <2> PICK item : item = BindingRef(ActiveKey(n))
      OBVIOUS
    <2>1. BindingRef(ActiveKey(n))' = item
      BY <1>1 DEF BindingRef
    <2>2. Comes(item)' => Comes(BindingRef(ActiveKey(n)))'
      BY <2>1 DEF Comes
    <2>3. BindingRef(ActiveKey(n)) \in dirty' => Comes(item)'
      BY DEF Comes
    <2> QED
      BY <1>1, <2>2, <2>3 DEF Needed
  <1>3. ASSUME Fulfilled(n), Attempting(n) PROVE Attempting(n)'
    BY <1>1, <1>3 DEF Attempting, OpOn
  <1>4. ASSUME Fulfilled(n), StatusComes(n) PROVE StatusComes(n)'
    <2>1. PICK o \in Checked(n) : Comes(StatusRef(o, Tracked(n).activeBindingPolicyUID))
      BY <1>4 DEF StatusComes
    <2> PICK item : item = StatusRef(o, Tracked(n).activeBindingPolicyUID)
      OBVIOUS
    <2>2. Comes(item)'
      BY <1>4, <2>1 DEF Needed
    <2>3. StatusRef(o, Tracked(n).activeBindingPolicyUID)' = item
      BY <1>1 DEF StatusRef
    <2>4. Comes(StatusRef(o, Tracked(n).activeBindingPolicyUID))'
      BY <2>2, <2>3 DEF Comes
    <2> QED
      BY <1>1, <2>4 DEF StatusComes
  <1> QED
    BY <1>2, <1>3, <1>4

\* The resolver forgets a policy: nothing is owed any more.
LEMMA UntrackedWakes ==
  ASSUME NEW n \in SBPs, Tracked(n)' = None
  PROVE  Wakes(n)'
  BY DEF Wakes, DeployedHasUid, BindingNoted, Woken

LEMMA ComesKept ==
  ASSUME NEW item, Comes(item),
         item \in dirty \cup delayed => item \in dirty' \cup delayed',
         \A w \in Workers : worker[w].item = item =>
             worker'[w] = worker[w] \/ worker[w].pc \notin {"dequeued", "read"}
  PROVE  Comes(item)'
  BY DEF Comes

LEMMA UsersWakes ==
  ASSUME LeftAlone, TypeInv, ReadsHold, CopiesInv, RolloutsInv, WakeInv, Environment, NEW n \in SBPs
  PROVE  Wakes(n)'
  <1>1. /\ WdsTypeOK /\ WdsNext
        /\ UNCHANGED <<bp, stagedBindingPolicies, op, csCache, bdgCache, dirty, delayed, worker>>
    BY NothingCollected DEF TypeInv, Environment, resolverVars, cacheVars, queueVars
  <1>2. Tracked(n)' = Tracked(n)
    BY <1>1 DEF Tracked
  <1>3. CASE Tracked(n) = None
    BY <1>2, <1>3, UntrackedWakes
  <1>4. CASE Tracked(n) # None
    <2>1. sbp[n] # None
      BY <1>4 DEF ReadsHold
    <2>2. sbp'[n] = sbp[n]
      BY <1>1, <2>1, LeftAloneIs, UsersOnlyCreate
    <2>3. SameDuty(n)
      BY <1>1, <1>2, <2>2 DEF SameDuty
    <2>4. \A item : Comes(item) => Comes(item)'
      BY <1>1, ComesKept
    <2>5. Wakes(n) /\ (StagingUp(n)' <=> StagingUp(n))
      BY <1>1 DEF WakeInv, StagingUp
    <2> QED
      BY <1>1, <2>3, <2>4, <2>5, WakesSame
  <1> QED
    BY <1>3, <1>4

LEMMA QueueWakes ==
  ASSUME NoRelist, TypeInv, CopiesInv, BindingsInv, WakeInv, NEW n \in SBPs,
         \/ \E m \in SBPs : DeliverPolicy(m)
         \/ \E k \in BPKeys : DeliverBinding(k)
         \/ \E item \in delayed : Requeue(item)
         \/ \E w \in Workers, item \in dirty : Get(w, item)
         \/ UNCHANGED vars
  PROVE  Wakes(n)'
  <1>1. UNCHANGED <<sbp, bp, stagedBindingPolicies, op, csCache>>
    BY DEF DeliverPolicy, DeliverBinding, Requeue, Get, vars, wdsVars, resolverVars, cacheVars
  <1>2. Wakes(n) /\ SameDuty(n) /\ (StagingUp(n)' <=> StagingUp(n))
    BY <1>1 DEF WakeInv, SameDuty, StagingUp, Tracked
  <1>3. \A k \in BPKeys : bdgCache'[k] = bdgCache[k] \/ BindingRef(k) \in dirty'
    <2>1. CASE UNCHANGED bdgCache
      BY <2>1
    <2>2. ASSUME NEW j \in BPKeys, DeliverBinding(j), NEW k \in BPKeys
          PROVE  bdgCache'[k] = bdgCache[k] \/ BindingRef(k) \in dirty'
      BY <2>2, DeliverBindingParts, BindingEnqueued
    <2> QED
      BY <2>1, <2>2 DEF DeliverPolicy, Requeue, Get, vars, cacheVars
  <1>4. ASSUME NEW x, Comes(x) PROVE Comes(x)'
    <2>1. CASE \/ \E m \in SBPs : DeliverPolicy(m)
               \/ \E k \in BPKeys : DeliverBinding(k)
               \/ UNCHANGED vars
      <3>1. dirty \subseteq dirty' /\ UNCHANGED <<delayed, worker>>
        BY <2>1 DEF DeliverPolicy, DeliverBinding, vars, queueVars
      <3> QED
        BY <1>4, <3>1, ComesKept
    <2>2. ASSUME NEW item \in delayed, Requeue(item) PROVE Comes(x)'
      <3>1. dirty \cup delayed \subseteq dirty' \cup delayed' /\ UNCHANGED worker
        BY <2>2 DEF Requeue
      <3> QED
        BY <1>4, <3>1, ComesKept
    <2>3. ASSUME NEW w \in Workers, NEW item \in dirty, Get(w, item) PROVE Comes(x)'
      <3>1. item # None /\ WorkersTyped
        BY ControllerAssumption DEF TypeInv, QueueTyped
      <3>2. /\ worker[w].pc = "idle"
            /\ worker'[w].pc = "dequeued" /\ worker'[w].item = item
            /\ \A v \in Workers : v # w => worker'[v] = worker[v]
            /\ dirty' = dirty \ {item} /\ UNCHANGED delayed
        BY <2>3, <3>1, GetParts
      <3>3. CASE x = item
        BY <3>2, <3>3 DEF Comes
      <3>4. CASE x # item
        BY <1>4, <3>2, <3>4, ComesKept
      <3> QED
        BY <3>3, <3>4
    <2> QED
      BY <2>1, <2>2, <2>3
  <1> QED
    BY <1>1, <1>2, <1>3, <1>4, WakesSame

LEMMA StatusWakes ==
  ASSUME TypeInv, CopiesInv, WakeInv, NEW o \in Objects, NEW u \in 1..(nextUid - 1), DeliverStatus(o, u),
         NEW n \in SBPs
  PROVE  Wakes(n)'
  <1>1. /\ UNCHANGED <<sbp, bp, stagedBindingPolicies, op, bdgCache, delayed, worker>>
        /\ dirty' = dirty \cup {StatusRef(o, u)}
        /\ csCache' = (csCache \ CachedReports(o, u)) \cup Reports(o, u)
    BY DEF DeliverStatus, wdsVars, resolverVars
  <1>2. Wakes(n) /\ SameDuty(n) /\ (StagingUp(n)' <=> StagingUp(n))
    BY <1>1 DEF WakeInv, SameDuty, StagingUp, Tracked
  <1>3. \A item : Comes(item) => Comes(item)'
    BY <1>1, ComesKept
  <1>4. CASE Tracked(n) = None
    BY <1>2, <1>4, UntrackedWakes DEF SameDuty
  <1>5. CASE Tracked(n) # None
    <2>1. /\ Tracked(n)' = Tracked(n) /\ ActiveKey(n)' = ActiveKey(n) /\ Checked(n)' = Checked(n)
          /\ (HasUid(n)' <=> HasUid(n)) /\ (Unnoted(n)' <=> Unnoted(n))
      BY <1>2, <1>5, DutyKept DEF SameDuty
    <2>2. DeployedHasUid(n)'
      BY <1>1, <1>2, <2>1 DEF Wakes, DeployedHasUid, StageDeployed, Deployed
    <2>3. BindingNoted(n)'
      <3> PICK item : item = BindingRef(ActiveKey(n))
        OBVIOUS
      <3>1. BindingRef(ActiveKey(n))' = item
        BY <2>1 DEF BindingRef
      <3>2. Comes(BindingRef(ActiveKey(n))) => Comes(BindingRef(ActiveKey(n)))'
        BY <1>3, <3>1 DEF Comes
      <3> QED
        BY <1>1, <1>2, <1>5, <2>1, <3>2 DEF Wakes, BindingNoted
    <2>4. Woken(n)'
      <3> SUFFICES ASSUME HasUid(n), Fulfilled(n)' PROVE Attempting(n)' \/ StatusComes(n)'
        BY <2>1 DEF Woken
      <3> DEFINE v == Tracked(n).activeBindingPolicyUID
      <3>1. ASSUME NEW p \in Checked(n), Comes(StatusRef(p, v))' PROVE StatusComes(n)'
        <4>1. v' = v
          BY <2>1
        <4> QED
          BY <2>1, <3>1, <4>1 DEF StatusComes
      <3>2. CASE u = v /\ o \in Checked(n)
        <4>1. Comes(StatusRef(o, u))'
          BY <1>1 DEF Comes
        <4>2. StatusRef(o, u) = StatusRef(o, v)
          BY <3>2
        <4>3. v' = v
          BY <2>1
        <4>4. Comes(StatusRef(o, v))'
          BY <4>1, <3>2, <4>3 DEF Comes, StatusRef
        <4> QED
          BY <3>1, <3>2, <4>4
      <3>3. CASE ~(u = v /\ o \in Checked(n))
        <4>1. \A p \in Checked(n) : Matching(n, p)' = Matching(n, p)
          BY <1>1, <2>1, <3>3 DEF Matching, CachedReports, Reports
        <4>2. Fulfilled(n)
          BY <2>1, <4>1 DEF Fulfilled, Stage
        <4>3. Attempting(n) => Attempting(n)'
          BY <1>1, <2>1 DEF Attempting, OpOn
        <4>4. ASSUME StatusComes(n) PROVE StatusComes(n)'
          <5>1. PICK p \in Checked(n) : Comes(StatusRef(p, v))
            BY <4>4 DEF StatusComes
          <5>2. v' = v
            BY <2>1
          <5> PICK item : item = StatusRef(p, v)
            OBVIOUS
          <5>3. Comes(item)'
            BY <1>3, <5>1
          <5>4. Comes(StatusRef(p, v))'
            BY <5>2, <5>3 DEF Comes, StatusRef
          <5> QED
            BY <3>1, <5>4
        <4> QED
          BY <1>2, <1>5, <4>2, <4>3, <4>4 DEF Wakes, Woken
      <3> QED
        BY <3>2, <3>3
    <2> QED
      BY <2>2, <2>3, <2>4 DEF Wakes
  <1> QED
    BY <1>4, <1>5

LEMMA ReadWakes ==
  ASSUME TypeInv, CopiesInv, WakeInv, NEW w \in Workers, ReadLister(w), NEW n \in SBPs
  PROVE  Wakes(n)'
  <1>1. WorkersTyped /\ UNCHANGED <<sbp, bp, stagedBindingPolicies, op, csCache, bdgCache, dirty, delayed>>
    BY DEF TypeInv, ReadLister, wdsVars, resolverVars, cacheVars
  <1>2. Wakes(n) /\ SameDuty(n) /\ (StagingUp(n)' <=> StagingUp(n))
    BY <1>1 DEF WakeInv, SameDuty, StagingUp, Tracked
  <1>3. ASSUME NEW item, Tracked(n) # None, HasUid(n), Needed(n, item), Comes(item) PROVE Comes(item)'
    <2>1. CASE worker[w].item # item
      <3>1. \A v \in Workers : v # w => worker'[v] = worker[v]
        BY <1>1, ReadListerParts
      <3> QED
        BY <1>1, <1>3, <2>1, <3>1, ComesKept
    <2>2. CASE worker[w].item = item
      <3>1. ~(Lookup(item) \subseteq {None})
        <4>1. CASE item = BindingRef(ActiveKey(n)) /\ bdgCache[ActiveKey(n)] # None
          BY <4>1 DEF BindingRef, Lookup
        <4>2. ASSUME Fulfilled(n), NEW o \in Checked(n), item = StatusRef(o, Tracked(n).activeBindingPolicyUID)
              PROVE  ~(Lookup(item) \subseteq {None})
          <5>1. PICK c \in Matching(n, o) : c.sat
            BY <4>2 DEF Fulfilled
          <5>2. c \in CachedReports(o, Tracked(n).activeBindingPolicyUID) /\ c # None
            BY <5>1, WdsAssumption DEF Matching, CachedReports, TypeInv, CachesTyped
          <5>3. Lookup(item) = CachedReports(o, Tracked(n).activeBindingPolicyUID)
            BY <4>2 DEF Lookup, StatusRef
          <5> QED
            BY <5>2, <5>3
        <4> QED
          BY <1>3, <4>1, <4>2 DEF Needed
      <3>2. worker'[w].pc = "read" /\ worker'[w].item = item
        BY <1>1, <2>2, <3>1, ReadListerReads
      <3> QED
        BY <3>2 DEF Comes
    <2> QED
      BY <2>1, <2>2
  <1> QED
    BY <1>1, <1>2, <1>3, WakesSame

LEMMA FinishWakes ==
  ASSUME TypeInv, CopiesInv, WakeInv, NEW w \in Workers, Finish(w), NEW n \in SBPs
  PROVE  Wakes(n)'
  <1>1. /\ op # None /\ op.pc = "return" /\ op' = None
        /\ worker[w].pc = "resolving" /\ \A v \in Workers : v # w => worker'[v] = worker[v]
        /\ delayed \subseteq delayed'
        /\ UNCHANGED <<sbp, bp, stagedBindingPolicies, csCache, bdgCache, dirty>>
    BY FinishMoves DEF TypeInv, wdsVars, cacheVars
  <1>2. ~op.staging
    BY <1>1 DEF TypeInv, TableInv, OpOK
  <1>3. Wakes(n) /\ SameDuty(n) /\ (StagingUp(n)' <=> StagingUp(n)) /\ ~Attempting(n)
    BY <1>1, <1>2 DEF WakeInv, SameDuty, StagingUp, Tracked, Attempting
  <1>4. \A item : Comes(item) => Comes(item)'
    BY <1>1, ComesKept
  <1> QED
    BY <1>1, <1>3, <1>4, WakesSame

-----------------------------------------------------------------------------
(* The calls that check a condition.                                       *)
LEMMA AttemptChecks ==
  ASSUME NEW n \in SBPs, NEW e \in Entries,
         e.activeIndex < Len(e.stages), Stage(e, e.activeIndex).cond,
         FilterWorkload(e.bindingSpec, Stage(e, e.activeIndex)) # {},
         op' = Attempt(n, e)
  PROVE  OpOn(n)' /\ op'.pc = "attempt" /\ op'.todo = FilterWorkload(e.bindingSpec, Stage(e, e.activeIndex))
  <1> DEFINE filtered == FilterWorkload(e.bindingSpec, Stage(e, e.activeIndex))
             start == OpAt(n, "attempt", FALSE)
  <1>1. e.activeIndex \in Nat /\ Len(e.stages) \in Nat
    BY DEF Entries
  <1>2. op' = [start EXCEPT !.todo = filtered]
    BY <1>1 DEF Attempt
  <1>3. op' \in Ops
    BY AttemptTyped
  <1>4. op'.sbp = n /\ op'.pc = "attempt" /\ op'.todo = filtered
    BY <1>2 DEF OpAt
  <1> QED
    BY <1>3, <1>4, ResolverAssumption DEF OpOn

LEMMA NoteBindingDetail ==
  ASSUME NamesSplit, TableInv, NEW k \in BPKeys, NEW binding \in BindingObjects, NoteBinding(k, binding)
  PROVE  LET n == k[1]
         IN  /\ n \in SBPs
             /\ \/ /\ Tracked(n) # None => Tracked(n).activeBindingPolicyUID # binding.bp
                   /\ TableKept
                \/ /\ Tracked(n) \in Entries /\ Tracked(n).activeBindingPolicyUID = binding.bp
                   /\ EntryBecomes(n, Tracked(n).activeIndex, Tracked(n).activeBindingPolicyUID)
                   /\ Tracked(n)'.bindingSpec = binding.workload
                   /\ op' = Attempt(n, Tracked(n)')
  <1> DEFINE n == k[1]
             e == Tracked(n)
             noted == [e EXCEPT !.bindingSpec = binding.workload]
  <1>1. n \in SBPs /\ OwnerOf[k] = n /\ n # None
    BY OwnerAssumption DEF BPKeys, NamesSplit
  <1>2. EntryOf(k) = e /\ e \in Entries \cup {None}
    BY <1>1 DEF EntryOf, Tracked, TableInv
  <1>3. CASE ~IsActiveBinding(e, binding)
    <2>1. TableKept
      BY <1>2, <1>3 DEF NoteBinding, TableKept
    <2> QED
      BY <1>1, <1>3, <2>1 DEF IsActiveBinding
  <1>4. CASE IsActiveBinding(e, binding)
    <2>1. e \in Entries /\ e.activeBindingPolicyUID = binding.bp
      BY <1>2, <1>4 DEF IsActiveBinding
    <2>2. binding.workload \in SUBSET Objects
      BY DEF BindingObjects
    <2>3. /\ noted \in Entries /\ noted.uid = e.uid /\ noted.stages = e.stages
          /\ noted.activeIndex = e.activeIndex
          /\ noted.activeBindingPolicyUID = e.activeBindingPolicyUID
          /\ noted.bindingSpec = binding.workload
      BY <2>1, <2>2 DEF Entries
    <2>4. /\ stagedBindingPolicies' = [stagedBindingPolicies EXCEPT ![n] = noted]
          /\ op' = Attempt(n, noted)
      BY <1>1, <1>2, <1>4 DEF NoteBinding
    <2> HIDE DEF noted
    <2>5. EntryBecomes(n, noted.activeIndex, noted.activeBindingPolicyUID)
      BY <1>1, <2>1, <2>3, <2>4, EntryReplaced
    <2>6. Tracked(n)' = noted
      BY <1>1, <2>4 DEF Tracked, TableInv
    <2> QED
      BY <1>1, <2>1, <2>3, <2>4, <2>5, <2>6
  <1> QED
    BY <1>3, <1>4

\* What a call that has just begun leaves alone.
Begins(w) ==
    /\ op = None /\ op' # None /\ ~op'.staging
    /\ worker[w].pc = "read" /\ worker[w].item \in Items /\ worker'[w].pc = "resolving"
    /\ \A v \in Workers : v # w => worker'[v] = worker[v]
    /\ UNCHANGED <<sbp, bp, bdgCache, csCache, dirty, delayed>>

LEMMA CallBegins ==
  ASSUME TypeInv, NEW w \in Workers, Reconcile(w)
  PROVE  /\ Begins(w)
         /\ \A n \in SBPs : ~StagingUp(n) /\ ~StagingUp(n)' /\ ~Attempting(n)
         /\ \A item : item # worker[w].item /\ Comes(item) => Comes(item)'
  <1>1. Begins(w)
    <2>1. WorkersTyped /\ op = None /\ op' \in Ops /\ ~op'.staging
      BY ReconcileParts DEF TypeInv
    <2>2. worker[w].item \in Items
      BY <2>1, ReconcileMoves DEF WorkersTyped, WorkerOK
    <2> QED
      BY <2>1, <2>2, ReconcileMoves, ResolverAssumption DEF Begins, wdsVars, cacheVars
  <1>2. \A n \in SBPs : ~StagingUp(n) /\ ~StagingUp(n)' /\ ~Attempting(n)
    BY <1>1 DEF Begins, StagingUp, Attempting, OpOn
  <1>3. ASSUME NEW item, item # worker[w].item, Comes(item) PROVE Comes(item)'
    BY <1>1, <1>3, ComesKept DEF Begins
  <1> QED
    BY <1>1, <1>2, <1>3

LEMMA NotedPolicyWakes ==
  ASSUME TypeInv, CopiesInv, ReadsHold, ItemsInv, WakeInv, NEW w \in Workers, Reconcile(w),
         worker[w].item[1] = "sbp", NEW n \in SBPs
  PROVE  Wakes(n)'
  <1>1. Begins(w)
    BY CallBegins
  <1>2. CASE worker[w].item = PolicyRef(n)
    <2>1. Holds(w, n)
      BY <1>1, <1>2 DEF Holds, Begins
    <2>2. worker[w].obj = sbp[n]
      BY <1>1, <2>1 DEF ItemsInv, ItemInv, HolderOK, Begins
    <2>3. CASE Tracked(n)' = None
      BY <2>3, UntrackedWakes
    <2>4. CASE Tracked(n)' # None
      <3>1. /\ sbp[n] \in SBPObjects /\ Tracked(n)' \in Entries
            /\ Tracked(n)'.stages = sbp[n].stages
            /\ Tracked(n)'.activeBindingPolicyUID = NoUid
        BY <1>2, <2>2, <2>4, ReconcileParts
      <3>2. Unnoted(n)'
        BY <3>1 DEF Unnoted
      <3>3. ~HasUid(n)'
        <4> SUFFICES ASSUME HasUid(n)' PROVE FALSE
          OBVIOUS
        <4> DEFINE j == Tracked(n)'.activeIndex + 1
        <4>1. UNCHANGED <<sbp, bp>>
          BY <1>1 DEF Begins
        <4>2. j \in 1..Len(sbp[n].stages) /\ Deployed(n, sbp[n].stages[j].name)
          BY <4>1 DEF HasUid, StageDeployed, Deployed
        <4>3. sbp[n].stages[j].name \in StageNames
          BY <3>1, <4>2, StageNameTyped, WdsAssumption DEF TypeInv
        <4>4. bp[<<n, sbp[n].stages[j].name>>].uid = NoUid
          BY <3>1, <4>1 DEF HasUid, Key, Stage
        <4>5. bp[<<n, sbp[n].stages[j].name>>].uid \in Uids
          BY <4>2, <4>3 DEF Deployed, TypeInv, WdsTypeOK, BPObjects, BPKeys
        <4> QED
          BY <4>4, <4>5 DEF Uids
      <3> QED
        BY <3>2, <3>3 DEF Wakes, DeployedHasUid, BindingNoted, Woken
    <2> QED
      BY <2>3, <2>4
  <1>3. CASE worker[w].item # PolicyRef(n)
    <2>1. Tracked(n)' = Tracked(n)
      <3> DEFINE m == worker[w].item[2]
      <3>1. m \in SBPs /\ m # n
        BY <1>1, <1>3, ItemParts, PolicyItem DEF Begins
      <3>2. worker[w].obj # None => worker[w].obj \in SBPObjects
        BY <1>1 DEF TypeInv, WorkersTyped, WorkerOK, Found, Begins
      <3>3. OthersKept(m)
        BY <3>1, <3>2, NotedParts, DeletedParts DEF Reconcile, TypeInv
      <3> QED
        BY <3>1, <3>3 DEF OthersKept
    <2>2. Wakes(n) /\ SameDuty(n)
      BY <1>1, <2>1 DEF WakeInv, SameDuty, Begins
    <2>3. ASSUME NEW item, Needed(n, item), Comes(item) PROVE Comes(item)'
      <3>1. item[1] # "sbp"
        BY <2>3 DEF Needed, BindingRef, StatusRef
      <3> QED
        BY <2>3, <3>1, CallBegins
    <2> QED
      BY <1>1, <2>2, <2>3, CallBegins, WakesSame DEF Begins
  <1> QED
    BY <1>2, <1>3

LEMMA NotedBindingWakes ==
  ASSUME NamesSplit, TypeInv, CopiesInv, BearersInv, BindingsInv, WakeInv, NEW w \in Workers, Reconcile(w),
         worker[w].item[1] = "bdg", NEW n \in SBPs
  PROVE  Wakes(n)'
  <1> PICK k, binding, m : k = worker[w].item[2] /\ binding = worker[w].obj /\ m = k[1]
    OBVIOUS
  <1>1. Begins(w) /\ TableInv
    BY CallBegins DEF TypeInv
  <1>2. ReadAs(w, "bdg") /\ worker[w].item = BindingRef(k) /\ k \in BPKeys /\ binding \in BindingObjects
    BY <1>1, ReadsTyped, ItemForms DEF ReadAs, Begins, TypeInv
  <1>3. NoteBinding(k, binding)
    BY DEF Reconcile
  <1>4. WorkerBears(k, binding.bp)
    BY <1>2 DEF WorkerBears
  <1>5. binding = bdgCache[k] \/ BindingRef(k) \in dirty
    BY <1>2 DEF BindingsInv
  <1>6. \/ /\ Tracked(m) # None => Tracked(m).activeBindingPolicyUID # binding.bp
           /\ TableKept
        \/ /\ Tracked(m) \in Entries /\ Tracked(m).activeBindingPolicyUID = binding.bp
           /\ EntryBecomes(m, Tracked(m).activeIndex, Tracked(m).activeBindingPolicyUID)
           /\ Tracked(m)'.bindingSpec = binding.workload
           /\ op' = Attempt(m, Tracked(m)')
    BY <1>1, <1>2, <1>3, NoteBindingDetail
  <1>7. Wakes(n)
    BY DEF WakeInv
  <1>8. CASE /\ Tracked(n)' = Tracked(n)
             /\ n = m => Tracked(m) = None \/ Tracked(m).activeBindingPolicyUID # binding.bp
    <2>1. SameDuty(n)
      BY <1>1, <1>8 DEF SameDuty, Begins
    <2>2. ASSUME NEW item, Tracked(n) # None, HasUid(n), Needed(n, item), Comes(item) PROVE Comes(item)'
      <3>1. CASE item # BindingRef(k)
        BY <1>2, <2>2, <3>1, CallBegins
      <3>2. CASE item = BindingRef(k)
        <4>1. k = ActiveKey(n) /\ bdgCache[k].bp = Tracked(n).activeBindingPolicyUID
          BY <2>2, <3>2 DEF Needed, BindingRef, StatusRef
        <4>2. m = n
          BY <4>1 DEF ActiveKey, Key
        <4>3. BindingRef(k) \in dirty
          BY <1>5, <1>8, <2>2, <4>1, <4>2
        <4> QED
          BY <1>1, <3>2, <4>3 DEF Begins, Comes
      <3> QED
        BY <3>1, <3>2
    <2> QED
      BY <1>1, <1>7, <2>1, <2>2, CallBegins, WakesSame DEF Begins
  <1>9. CASE /\ n = m /\ Tracked(n) \in Entries /\ Tracked(n).activeBindingPolicyUID = binding.bp
             /\ EntryBecomes(n, Tracked(n).activeIndex, Tracked(n).activeBindingPolicyUID)
             /\ Tracked(n)'.bindingSpec = binding.workload
             /\ op' = Attempt(n, Tracked(n)')
    <2> DEFINE e == Tracked(n)
    <2>1. /\ e \in Entries /\ e # None /\ e' \in Entries /\ e'.stages = e.stages
          /\ e'.activeIndex = e.activeIndex
          /\ e'.activeBindingPolicyUID = e.activeBindingPolicyUID
      BY <1>9, ResolverAssumption DEF EntryBecomes
    <2>2. ActiveKey(n)' = ActiveKey(n)
      BY <2>1 DEF ActiveKey, Key, Stage
    <2>3. /\ HasUid(n)' <=> HasUid(n)
          /\ Unnoted(n)' <=> Unnoted(n)
          /\ StageDeployed(n, Tracked(n).activeIndex + 1)' <=> StageDeployed(n, Tracked(n).activeIndex + 1)
      <3>1. UNCHANGED <<sbp, bp>> /\ e' # None
        BY <1>1, <2>1, ResolverAssumption DEF Begins
      <3>2. Key(n, e, e.activeIndex)' = Key(n, e, e.activeIndex)
        BY <2>2 DEF ActiveKey
      <3> QED
        BY <2>1, <3>1, <3>2 DEF HasUid, Unnoted, StageDeployed, Deployed
    <2>4. DeployedHasUid(n)'
      BY <1>7, <2>1, <2>3, CallBegins DEF Wakes, DeployedHasUid
    <2>5. CASE ~HasUid(n)
      BY <2>3, <2>4, <2>5 DEF Wakes, BindingNoted, Woken
    <2>6. CASE HasUid(n)
      <3>1. /\ ActiveKey(n) \in BPKeys /\ e.activeIndex < Len(e.stages)
            /\ e.activeBindingPolicyUID \in Uids /\ Bears(ActiveKey(n), e.activeBindingPolicyUID)
        BY <2>1, <2>6, HasUidBears
      <3>2. Bears(k, e.activeBindingPolicyUID)
        BY <1>4, <1>9 DEF Bears
      <3>3. k = ActiveKey(n)
        BY <1>2, <3>1, <3>2 DEF BearersInv
      <3>4. BindingNoted(n)'
        <4>1. CASE binding = bdgCache[k]
          BY <1>1, <1>9, <2>2, <3>3, <4>1 DEF BindingNoted, Begins
        <4>2. CASE BindingRef(k) \in dirty
          BY <1>1, <2>2, <3>3, <4>2 DEF BindingNoted, Begins, Comes, BindingRef
        <4> QED
          BY <1>5, <4>1, <4>2
      <3>5. Woken(n)'
        <4> SUFFICES ASSUME Fulfilled(n)' PROVE Attempting(n)'
          BY DEF Woken
        <4>1. Checked(n)' = FilterWorkload(e'.bindingSpec, Stage(e', e'.activeIndex))
          BY DEF Checked
        <4>2. Stage(e', e'.activeIndex).cond /\ Checked(n)' # {}
          BY DEF Fulfilled
        <4>3. OpOn(n)' /\ op'.pc = "attempt" /\ op'.todo = Checked(n)'
          BY <1>9, <2>1, <3>1, <4>1, <4>2, AttemptChecks
        <4> QED
          BY <4>3 DEF Attempting
      <3> QED
        BY <2>4, <3>4, <3>5 DEF Wakes
    <2> QED
      BY <2>5, <2>6
  <1>10. CASE n = m
    BY <1>6, <1>8, <1>9, <1>10 DEF TableKept, Tracked
  <1>11. CASE n # m
    <2>1. Tracked(n)' = Tracked(n)
      BY <1>6, <1>11 DEF TableKept, EntryBecomes, OthersKept, Tracked
    <2> QED
      BY <1>8, <1>11, <2>1
  <1> QED
    BY <1>10, <1>11

LEMMA NotedStatusWakes ==
  ASSUME NamesSplit, TypeInv, CopiesInv, StatusesInv, BearersInv, WakeInv, NEW w \in Workers, Reconcile(w),
         worker[w].item[1] = "cs", NEW n \in SBPs
  PROVE  Wakes(n)'
  <1> DEFINE c == worker[w].obj
             e == Tracked(n)
  <1>1. Begins(w)
    BY CallBegins
  <1>2. ReadAs(w, "cs") /\ c \in CombinedStatuses /\ worker[w].item = StatusRef(c.obj, c.bp)
    BY <1>1, ReadsTyped DEF ReadAs, Begins, TypeInv, StatusesInv
  <1>3. NoteCombinedStatus(c)
    BY DEF Reconcile
  <1>4. WorkerBears(c.label, c.bp) /\ c.label \in BPKeys
    BY <1>2 DEF WorkerBears, CombinedStatuses
  <1>5. Tracked(n)' = Tracked(n) /\ Wakes(n) /\ SameDuty(n)
    BY <1>1, <1>3 DEF NoteCombinedStatus, Tracked, SameDuty, Begins, WakeInv
  <1>6. CASE e = None
    BY <1>5, <1>6, UntrackedWakes
  <1>7. CASE e # None
    <2>1. ASSUME Comes(BindingRef(ActiveKey(n))) PROVE Comes(BindingRef(ActiveKey(n)))'
      <3> PICK item : item = BindingRef(ActiveKey(n))
        OBVIOUS
      <3>1. item # worker[w].item
        BY <1>2 DEF BindingRef, StatusRef
      <3>2. Comes(item)'
        BY <2>1, <3>1, CallBegins
      <3>3. BindingRef(ActiveKey(n))' = item
        BY <1>5 DEF BindingRef, ActiveKey, Key, Stage
      <3> QED
        BY <3>2, <3>3 DEF Comes
    <2>2. ASSUME HasUid(n), Fulfilled(n), StatusComes(n) PROVE Attempting(n)' \/ StatusComes(n)'
      <3>1. Checked(n)' = Checked(n)
        BY <1>5 DEF Checked, Stage
      <3>2. /\ ActiveKey(n) \in BPKeys /\ e.activeIndex < Len(e.stages) /\ e \in Entries
            /\ e.activeBindingPolicyUID \in Uids /\ Bears(ActiveKey(n), e.activeBindingPolicyUID)
        BY <1>7, <2>2, HasUidBears
      <3>3. PICK o \in Checked(n) : Comes(StatusRef(o, e.activeBindingPolicyUID))
        BY <2>2 DEF StatusComes
      <3> PICK item : item = StatusRef(o, e.activeBindingPolicyUID)
        OBVIOUS
      <3>4. CASE item # worker[w].item
        <4>1. Comes(item)'
          BY <3>3, <3>4, CallBegins
        <4>2. StatusRef(o, e.activeBindingPolicyUID)' = item
          BY <1>5 DEF StatusRef
        <4>3. Comes(StatusRef(o, e.activeBindingPolicyUID))'
          BY <4>1, <4>2 DEF Comes
        <4> QED
          BY <3>1, <3>3, <4>3 DEF StatusComes
      <3>5. CASE item = worker[w].item
        <4>1. c.bp = e.activeBindingPolicyUID
          BY <1>2, <3>5 DEF StatusRef
        <4>2. Bears(c.label, e.activeBindingPolicyUID)
          BY <1>4, <4>1 DEF Bears
        <4>3. c.label = ActiveKey(n)
          BY <1>4, <3>2, <4>2 DEF BearersInv
        <4>4. OwnerOf[c.label] = n
          BY <1>4, <4>3 DEF NamesSplit, ActiveKey, Key
        <4>5. op' = Attempt(n, e)
          BY <1>3, <1>7, <4>4, OwnerAssumption DEF NoteCombinedStatus, EntryOf, Tracked
        <4>6. Stage(e, e.activeIndex).cond /\ Checked(n) # {}
          BY <2>2 DEF Fulfilled
        <4>7. OpOn(n)' /\ op'.pc = "attempt" /\ op'.todo = Checked(n)
          BY <3>2, <4>5, <4>6, AttemptChecks DEF Checked
        <4> QED
          BY <3>1, <4>7 DEF Attempting
      <3> QED
        BY <3>4, <3>5
    <2>3. UNCHANGED <<csCache, bdgCache>> /\ (StagingUp(n)' <=> StagingUp(n)) /\ ~Attempting(n)
      BY <1>1, CallBegins DEF Begins
    <2> QED
      BY <1>5, <2>1, <2>2, <2>3, WakesKept
  <1> QED
    BY <1>6, <1>7

-----------------------------------------------------------------------------
(* What an operation in progress does to a wake-up.                        *)

\* Before the Create of a stage succeeds nothing is deployed under its UID.
NotYetInv ==
    \A n \in SBPs :
        /\ Tracked(n) # None
        /\ Unnoted(n) \/ (StagingUp(n) /\ op.pc \in {"delete", "create"})
        => ~HasUid(n)

LEMMA NotYet ==
  ASSUME TypeInv, CopiesInv, UidInv(0)
  PROVE  NotYetInv
  <1> SUFFICES ASSUME NEW n \in SBPs, Tracked(n) # None, HasUid(n),
                      Unnoted(n) \/ (StagingUp(n) /\ op.pc \in {"delete", "create"})
               PROVE  FALSE
    BY DEF NotYetInv
  <1> DEFINE e == Tracked(n)
             i == e.activeIndex
  <1>1. /\ e \in Entries /\ sbp[n] # None /\ i < Len(e.stages)
        /\ ActiveKey(n) = <<n, ActiveName(n)>> /\ ActiveName(n) \in StageNames
        /\ e.activeBindingPolicyUID \in Uids
    BY HasUidBears
  <1>2. StagingUp(n) /\ op.pc \in {"delete", "create"}
    BY <1>1 DEF Unnoted, Uids
  <1>3. Indices(n, 0) = {i - 1, i - 1 + 0}
    BY <1>2 DEF Indices
  <1>4. i \in Nat /\ Len(e.stages) \in Nat /\ e.stages = sbp[n].stages /\ Distinct(sbp[n].stages)
    BY <1>1 DEF Entries, CopiesInv, CopyOf, SameVersion
  <1>5. i - 1 \in Nat
    <2>1. i > 0
      BY <1>2 DEF StagingUp, TypeInv, TableInv, OpOK, Entry, Tracked
    <2> QED
      BY <1>4, <2>1
  <1>6. bp[<<n, ActiveName(n)>>] # None /\ bp[<<n, ActiveName(n)>>].uid = e.activeBindingPolicyUID
    BY <1>1, <1>4 DEF HasUid, StageDeployed, Deployed, ActiveName, ActiveKey, Stage
  <1>7. MadeFor(bp, n, e, Indices(n, 0))
    BY DEF UidInv
  <1>8. Stage(e, i - 1).name = ActiveName(n)
    BY <1>1, <1>3, <1>4, <1>6, <1>7 DEF MadeFor
  <1>9. /\ sbp[n].stages[i - 1 + 1].name = sbp[n].stages[i + 1].name
        /\ i - 1 + 1 \in 1..Len(sbp[n].stages) /\ i + 1 \in 1..Len(sbp[n].stages)
    BY <1>1, <1>4, <1>5, <1>8 DEF Stage, ActiveName
  <1> QED
    BY <1>4, <1>9 DEF Distinct

LEMMA NothingOwed ==
  ASSUME NEW n \in SBPs, ~HasUid(n)',
         Unnoted(n)' \/ StagingUp(n)' \/ ~StageDeployed(n, Tracked(n).activeIndex + 1)'
  PROVE  Wakes(n)'
  BY DEF Wakes, DeployedHasUid, BindingNoted, Woken

(* A fulfilled condition is found to be so, object by object.              *)
LEMMA CheckObjectWakes ==
  ASSUME TypeInv, StatusesInv, CopiesInv, NEW o \in Objects, CheckObject(o), TableKept,
         NEW n \in SBPs, Attempting(n), Tracked(n) # None, HasUid(n), Fulfilled(n), UNCHANGED csCache
  PROVE  Attempting(n)'
  <1> DEFINE e == Tracked(n)
             rest == op.todo \ {o}
  <1>1. op # None /\ op.sbp = n /\ op.pc = "attempt" /\ op.todo \subseteq Checked(n) /\ Entry = e
    BY DEF Attempting, OpOn, Entry, Tracked
  <1>2. e.activeBindingPolicyUID \in Uids /\ e \in Entries
    BY HasUidBears
  <1>3. Matches(Entry, o) = Matching(n, o)
    BY <1>1, <1>2 DEF Matches, Matching, ActiveKey, Uids
  <1>4. o \in Checked(n)
    BY <1>1 DEF CheckObject
  <1>5. PICK c \in Matching(n, o) : c.sat
    BY <1>4 DEF Fulfilled
  <1>6. \A d \in Matching(n, o) : d = c
    BY DEF Matching, StatusesInv, OneStatus
  <1>7. ~(Matches(Entry, o) = {} \/ \E d \in Matches(Entry, o) : ~d.sat)
    BY <1>3, <1>5, <1>6
  <1>8. ~(stagedBindingPolicies' = [stagedBindingPolicies EXCEPT ![op.sbp].activeIndex = @ + 1])
    <2> SUFFICES ASSUME stagedBindingPolicies' = [stagedBindingPolicies EXCEPT ![op.sbp].activeIndex = @ + 1]
                 PROVE  FALSE
      OBVIOUS
    <2> DEFINE next == [e EXCEPT !.activeIndex = e.activeIndex + 1]
    <2>1. stagedBindingPolicies'[n] = next
      BY <1>1 DEF TypeInv, TableInv, Tracked
    <2>2. next.activeIndex = e.activeIndex + 1 /\ e.activeIndex \in Nat
      BY <1>2 DEF Entries
    <2> HIDE DEF next
    <2>3. Tracked(n) = next
      BY <2>1 DEF TableKept, Tracked
    <2>4. Tracked(n).activeIndex = Tracked(n).activeIndex + 1 /\ Tracked(n).activeIndex \in Nat
      BY <2>2, <2>3
    <2> QED
      BY <2>4
  <1>9. op' = [op EXCEPT !.todo = rest]
    BY <1>7, <1>8 DEF CheckObject
  <1>10. op \in Ops
    BY <1>1 DEF TypeInv, TableInv
  <1>11. op'.sbp = n /\ op'.pc = "attempt" /\ op'.todo = rest /\ op' \in Ops
    <2>1. rest \in SUBSET Objects
      BY <1>10 DEF Ops
    <2> HIDE DEF rest
    <2> QED
      BY <1>1, <1>9, <1>10, <2>1 DEF Ops
  <1>12. op' # None
    BY <1>11, ResolverAssumption
  <1>13. Checked(n)' = Checked(n)
    BY DEF Checked, Tracked, TableKept, Stage
  <1> QED
    BY <1>1, <1>11, <1>12, <1>13 DEF Attempting, OpOn

\* A step of the resolver leaves the queue and the stores alone.
LEMMA ResolveFrame ==
  ASSUME Resolve
  PROVE  /\ UNCHANGED <<bdgCache, csCache, dirty, delayed, worker>>
         /\ \A item : Comes(item) => Comes(item)'
  <1>1. UNCHANGED <<bdgCache, csCache, dirty, delayed, worker>>
    BY DEF Resolve, cacheVars, queueVars
  <1> QED
    BY <1>1, ComesKept

LEMMA OtherResolveWakes ==
  ASSUME LeftAlone, TypeInv, ReadsHold, CopiesInv, WakeInv, Resolve, NEW p \in SBPs, op.sbp = p,
         NEW n \in SBPs, n # p
  PROVE  Wakes(n)'
  <1>1. WdsTypeOK /\ TableInv /\ OpSteps /\ EndIsSure
    BY LeftAloneIs, ReadsMakeSure DEF TypeInv, Resolve
  <1>2. op' \in Ops /\ op'.sbp = p /\ OthersKept(p) /\ sbp'[n] = sbp[n]
    BY <1>1, OpStepsSame
  <1>3. \A name \in StageNames : bp'[<<n, name>>] = bp[<<n, name>>]
    <2>1. PICK k, new : (k = PreviousKey(p) \/ k = ActiveKey(p)) /\ (bp' = bp \/ bp' = [bp EXCEPT ![k] = new])
      BY <1>1, SureSteps DEF Waits, LeavesStage, Deletes, Deploys, Refused, ReadsPolicy, Announces
    <2>2. \A name : k # <<n, name>>
      BY <2>1 DEF PreviousKey, ActiveKey, Key
    <2> QED
      BY <1>1, <2>1, <2>2 DEF WdsTypeOK, BPKeys
  <1>4. SameDuty(n) /\ Wakes(n)
    BY <1>2, <1>3 DEF SameDuty, OthersKept, WakeInv
  <1>5. ~Attempting(n) /\ ~StagingUp(n) /\ ~StagingUp(n)'
    BY <1>2 DEF Attempting, OpOn, StagingUp
  <1> QED
    BY <1>4, <1>5, ResolveFrame, WakesSame

LEMMA ResolveWakes ==
  ASSUME LeftAlone, TypeInv, ReadsHold, CopiesInv, ItemsInv, RolloutsInv, BearersInv, StatusesInv, WakeInv,
         NotYetInv', RolloutsInv', Resolve, NEW n \in SBPs
  PROVE  Wakes(n)'
  <1> DEFINE e == Tracked(n)
             i == e.activeIndex
  <1>1. WdsTypeOK /\ TableInv /\ OpSteps /\ EndIsSure
    BY LeftAloneIs, ReadsMakeSure DEF TypeInv, Resolve
  <1>2. PICK p \in SBPs : op.sbp = p
    BY <1>1, OpStepsBusy
  <1>3. CASE n # p
    BY <1>2, <1>3, OtherResolveWakes
  <1>4. CASE n = p
    <2>1. OpOn(n) /\ op.pc # "return"
      BY <1>1, <1>2, <1>4, OpStepsBusy DEF OpOn
    <2>2. /\ sbp[n] # None /\ sbp[n] \in SBPObjects /\ e \in Entries /\ e # None /\ i \in Nat
          /\ e.stages = sbp[n].stages /\ Len(sbp[n].stages) \in Nat /\ op.staging \in BOOLEAN
          /\ Entry = e
      BY <2>1, AtWork, OnTracked
    <2>3. RolloutInv(n) /\ RolloutInv(n)' /\ ItemInv(n) /\ Wakes(n) /\ Tracked(n)' # None
      <3>1. TracksSame(n)
        BY <1>1, <1>2, <1>4, OpStepsSame
      <3>2. Tracked(n)' # None
        BY <2>2, <3>1, ResolverAssumption DEF TracksSame
      <3> QED
        BY <3>2 DEF RolloutsInv, ItemsInv, WakeInv
    <2>4. op' \in Ops /\ op' # None /\ op'.sbp = n
      BY <1>1, <1>2, <1>4, OpStepsSame, ResolverAssumption
    <2>5. Unnoted(n)' \/ (StagingUp(n)' /\ op'.pc \in {"delete", "create"}) => ~HasUid(n)'
      BY <2>3 DEF NotYetInv
    <2>6. (op.pc \in {"delete", "create"} /\ ~op.staging) => Unnoted(n)
      BY <2>1, <2>3 DEF ItemInv, NotesFirst
    <2>7. UNCHANGED <<csCache, bdgCache, dirty, delayed, worker>> /\ \A item : Comes(item) => Comes(item)'
      BY ResolveFrame
    <2>8. CASE Waits(n)
      <3>1. UNCHANGED <<sbp, bp>> /\ TableKept /\ op.pc = "attempt" /\ ~op.staging /\ ~op'.staging
        BY <2>8 DEF Waits, OpAttempts, OpBecomes
      <3>2. SameDuty(n)
        BY <3>1 DEF SameDuty, TableKept, Tracked
      <3>3. ~StagingUp(n) /\ ~StagingUp(n)'
        BY <3>1 DEF StagingUp
      <3>4. PICK o \in Objects : CheckObject(o)
        BY <1>1, <3>1 DEF OpSteps, DeletePrevious, CreateActive, GetPolicy, UpdateStatus, At
      <3>5. HasUid(n) /\ Fulfilled(n) /\ Attempting(n) => Attempting(n)'
        BY <2>2, <2>7, <3>1, <3>4, CheckObjectWakes
      <3>6. e' = e
        BY <3>1 DEF TableKept, Tracked
      <3>7. ASSUME Comes(BindingRef(ActiveKey(n))) PROVE Comes(BindingRef(ActiveKey(n)))'
        <4> PICK item : item = BindingRef(ActiveKey(n))
          OBVIOUS
        <4>1. BindingRef(ActiveKey(n))' = item
          BY <3>6 DEF BindingRef, ActiveKey, Key, Stage
        <4> QED
          BY <2>7, <3>7, <4>1 DEF Comes
      <3>8. ASSUME StatusComes(n) PROVE StatusComes(n)'
        <4>1. PICK o1 \in Checked(n) : Comes(StatusRef(o1, e.activeBindingPolicyUID))
          BY <3>8 DEF StatusComes
        <4> PICK item : item = StatusRef(o1, e.activeBindingPolicyUID)
          OBVIOUS
        <4>2. StatusRef(o1, e.activeBindingPolicyUID)' = item /\ Checked(n)' = Checked(n)
          BY <3>6 DEF StatusRef, Checked, Stage
        <4>3. Comes(StatusRef(o1, e.activeBindingPolicyUID))'
          BY <2>7, <4>1, <4>2 DEF Comes
        <4> QED
          BY <4>1, <4>2, <4>3 DEF StatusComes
      <3> QED
        BY <2>3, <2>7, <3>2, <3>3, <3>5, <3>7, <3>8, WakesKept
    <2>9. CASE LeavesStage(n) \/ (Deletes(n) /\ op.staging)
      <3>1. op'.staging /\ op'.pc \in {"delete", "create"}
        BY <2>9 DEF LeavesStage, Deletes, OpBecomes
      <3>2. StagingUp(n)'
        BY <2>4, <3>1 DEF StagingUp
      <3> QED
        BY <2>5, <3>1, <3>2, NothingOwed
    <2>10. CASE (Deletes(n) \/ Refused(n)) /\ ~op.staging
      <3>1. Unnoted(n)
        BY <2>6, <2>10 DEF Deletes, Refused
      <3>2. Unnoted(n)'
        BY <2>2, <2>10, <3>1 DEF Unnoted, Deletes, Refused, TableKept, EntryBecomes, Tracked
      <3> QED
        BY <2>5, <3>2, NothingOwed
    <2>11. CASE Refused(n) /\ op.staging
      <3>1. op.pc = "create" /\ UNCHANGED <<sbp, bp>> /\ Tracked(n)'.activeIndex = i - 1
        BY <2>11 DEF Refused, EntryBecomes
      <3>2. StagingUp(n)
        BY <2>1, <2>11 DEF StagingUp, OpOn
      <3>3. i = Position(sbp[n]) /\ ~StageDeployed(n, i)
        BY <2>2, <2>3, <3>1, <3>2 DEF RolloutInv, IndexOK
      <3>4. Tracked(n)'.activeIndex + 1 = i
        BY <2>2, <3>1
      <3>5. ~StageDeployed(n, Tracked(n).activeIndex + 1)'
        BY <3>1, <3>3, <3>4 DEF StageDeployed, Deployed
      <3>6. ~HasUid(n)'
        BY <3>5 DEF HasUid
      <3> QED
        BY <3>5, <3>6, NothingOwed
    <2>12. CASE Deploys(n)
      <3>1. /\ Tracked(n)'.activeBindingPolicyUID = nextUid
            /\ op'.pc = "get" /\ nextUid \in Uids
        BY <1>1, <2>12 DEF Deploys, EntryBecomes, OpBecomes, WdsTypeOK
      <3>2. HasUid(n)'
        BY <2>3, <2>4, <3>1 DEF RolloutInv, Deploying, OpOn
      <3>3. ActiveKey(n)' = ActiveKey(n) /\ ActiveKey(n) \in BPKeys
        <4>1. ActiveKey(n)' = ActiveKey(n)
          BY <2>12 DEF Deploys, EntryBecomes, ActiveKey, Key, Stage
        <4>2. i + 1 \in 1..Len(sbp[n].stages)
          BY <2>2, <2>12 DEF Deploys
        <4>3. e.stages[i + 1].name \in StageNames
          BY <1>1, <2>2, <4>2, StageNameTyped
        <4> QED
          BY <4>1, <4>3 DEF ActiveKey, Key, Stage, BPKeys
      <3>4. ~Bears(ActiveKey(n), nextUid)
        <4>1. Bears(ActiveKey(n), nextUid) => nextUid < nextUid
          BY <3>1, <3>3 DEF BearersInv
        <4> QED
          BY <3>1, <4>1 DEF Uids
      <3>5. BindingNoted(n)'
        BY <2>7, <3>1, <3>3, <3>4 DEF BindingNoted, Bears
      <3>6. Woken(n)'
        <4> SUFFICES ASSUME Fulfilled(n)' PROVE FALSE
          BY DEF Woken
        <4>1. PICK o : o \in Checked(n)'
          BY DEF Fulfilled
        <4>2. PICK c \in Matching(n, o)' : c.sat
          BY <4>1 DEF Fulfilled
        <4>3. c \in csCache /\ c.label = ActiveKey(n) /\ c.bp = nextUid
          BY <2>7, <3>1, <3>3, <4>2 DEF Matching
        <4> QED
          BY <3>4, <4>3 DEF Bears, ReportBears
      <3> QED
        BY <3>2, <3>5, <3>6 DEF Wakes, DeployedHasUid
    <2>13. CASE ReadsPolicy(n) \/ Announces(n)
      <3>1. op.pc \in {"get", "update"} /\ UNCHANGED bp /\ TableKept
        BY <2>13 DEF ReadsPolicy, Announces
      <3>2. HasUid(n) /\ ~Attempting(n)
        BY <2>1, <2>3, <3>1 DEF RolloutInv, Deploying, Attempting
      <3>3. sbp'[n] # None /\ sbp'[n].stages = sbp[n].stages
        BY <2>2, <2>13, WdsAssumption DEF ReadsPolicy, Announces, StatusBecomes
      <3>4. SameDuty(n)
        BY <2>2, <3>1, <3>3 DEF SameDuty, TableKept, Tracked
      <3> QED
        BY <2>3, <2>7, <3>2, <3>4, WakesSame
    <2> QED
      BY <1>1, <1>2, <1>4, <2>2, <2>8, <2>9, <2>10, <2>11, <2>12, <2>13, SureSteps
  <1> QED
    BY <1>3, <1>4

LEMMA NextWakes ==
  ASSUME LeftAlone, NamesSplit, TypeInv, ReadsHold, DownInv, CopiesInv, ItemsInv, RolloutsInv,
         BearersInv, StatusesInv, BindingsInv, WakeInv, NotYetInv', RolloutsInv', [Next]_vars
  PROVE  WakeInv'
  <1> SUFFICES ASSUME NEW n \in SBPs PROVE Wakes(n)'
    BY DEF WakeInv
  <1>1. NoRelist
    BY LeftAloneIs
  <1>2. CASE Environment
    BY <1>2, UsersWakes
  <1>3. CASE \/ \E m \in SBPs : DeliverPolicy(m)
             \/ \E k \in BPKeys : DeliverBinding(k)
             \/ \E item \in delayed : Requeue(item)
             \/ \E w \in Workers, item \in dirty : Get(w, item)
             \/ UNCHANGED vars
    BY <1>1, <1>3, QueueWakes
  <1>4. ASSUME NEW o \in Objects, NEW u \in 1..(nextUid - 1), DeliverStatus(o, u) PROVE Wakes(n)'
    BY <1>4, StatusWakes
  <1>5. ASSUME NEW w \in Workers, ReadLister(w) PROVE Wakes(n)'
    BY <1>5, ReadWakes
  <1>6. ASSUME NEW w \in Workers, Reconcile(w) PROVE Wakes(n)'
    <2>1. worker[w].item[1] \in {"sbp", "bdg", "cs"}
      BY <1>6 DEF Reconcile
    <2> QED
      BY <1>6, <2>1, NotedPolicyWakes, NotedBindingWakes, NotedStatusWakes
  <1>7. ASSUME NEW w \in Workers, Finish(w) PROVE Wakes(n)'
    BY <1>7, FinishWakes
  <1>8. CASE Resolve
    BY <1>8, ResolveWakes
  <1>9. CASE Crash \/ Panic
    BY <1>9, LoseMemoryParts, UntrackedWakes DEF Crash, Panic
  <1>10. CASE Restart
    <2>1. Tracked(n)' = None
      BY <1>10 DEF Restart, DownInv, resolverVars, Tracked
    <2> QED
      BY <2>1, UntrackedWakes
  <1> QED
    BY <1>2, <1>3, <1>4, <1>5, <1>6, <1>7, <1>8, <1>9, <1>10 DEF Next, Informers, WorkerStep

-----------------------------------------------------------------------------
(* The theorem.                                                            *)
LEMMA WakesInvariant ==
  ASSUME LeftAlone, DistinctNames, NamesSplit
  PROVE  Spec => [](TypeInv /\ QueueInv /\ StageInv /\ BearersInv /\ BindingsInv /\ WakeInv)
  <1>1. Spec => [](TypeInv /\ ReadsHold /\ QueueInv /\ StageInv)
    BY StagesInvariant
  <1>2. Init => UidInv(0) /\ BearersInv /\ StatusesInv /\ BindingsInv /\ WakeInv
    <2> SUFFICES ASSUME Init PROVE UidInv(0) /\ BearersInv /\ StatusesInv /\ BindingsInv /\ WakeInv
      OBVIOUS
    <2>1. /\ \A k \in BPKeys : bp[k] = None /\ bdg[k] = None /\ bdgCache[k] = None
          /\ cs = {} /\ csCache = {}
          /\ \A w \in Workers : worker[w].pc = "idle"
          /\ \A n \in SBPs : Tracked(n) = None
      BY DEF Init, WdsInit, ResolverStart, IdleWorker, Busy, Tracked
    <2>2. UidInv(0)
      BY InitUids
    <2>3. BearersInv
      <3>1. \A k \in BPKeys, u \in Uids : ~Bears(k, u)
        BY <2>1 DEF Bears, ReportBears, WorkerBears, ReadAs
      <3> QED
        BY <3>1 DEF BearersInv
    <2>4. StatusesInv /\ BindingsInv
      BY <2>1 DEF StatusesInv, OneStatus, BindingsInv, BindingTells, CachedIsBound, ReadAs
    <2>5. WakeInv
      BY <2>1 DEF WakeInv, Wakes, DeployedHasUid, BindingNoted, Woken
    <2> QED
      BY <2>2, <2>3, <2>4, <2>5
  <1>3. TypeInv /\ ReadsHold /\ UidInv(0) /\ [Next]_vars => UidInv(0)'
    <2> SUFFICES ASSUME TypeInv, ReadsHold, UidInv(0), [Next]_vars PROVE UidInv(0)'
      OBVIOUS
    <2>1. EndIsSure
      BY LeftAloneIs, ReadsMakeSure
    <2> QED
      BY <2>1, NextUids
  <1>4. Spec => []NotYetInv
    <2>1. Spec => []UidInv(0)
      BY <1>1, <1>2, <1>3, PTL DEF Spec
    <2>2. TypeInv /\ StageInv /\ UidInv(0) => NotYetInv
      BY NotYet DEF StageInv
    <2> QED
      BY <1>1, <2>1, <2>2, PTL
  <1>5. ASSUME TypeInv, ReadsHold, QueueInv, StageInv, StageInv', NotYetInv',
               BearersInv, StatusesInv, BindingsInv, WakeInv, [Next]_vars
        PROVE  BearersInv' /\ StatusesInv' /\ BindingsInv' /\ WakeInv'
    <2>1. DownInv /\ CopiesInv /\ ItemsInv /\ RolloutsInv /\ RolloutsInv'
      BY <1>5 DEF QueueInv, StageInv
    <2> QED
      BY <1>5, <2>1, NextBearers, NextStatuses, NextBindings, NextWakes
  <1> QED
    BY <1>1, <1>2, <1>4, <1>5, PTL DEF Spec

(* Once every event is processed, no stage is left waiting although its    *)
(* condition holds on every object that it is checked against, whatever    *)
(* order the Binding and its statuses came in and wherever the process     *)
(* died: for any number of policies, stages, objects and workers.          *)
THEOREM NoWakeupIsLost ==
  ASSUME LeftAlone, DistinctNames, NamesSplit
  PROVE  Spec => []SettledUnfulfilled
  <1>1. ASSUME TypeInv, QueueInv, StageInv, BearersInv, WakeInv, Quiet,
               NEW n \in SBPs, sbp[n] # None, Position(sbp[n]) > 0,
               NEW key, key = <<n, sbp[n].stages[Position(sbp[n])].name>>,
               Current(key), sbp[n].stages[Position(sbp[n])].cond,
               FilterWorkload(bdg[key].workload, sbp[n].stages[Position(sbp[n])]) # {},
               \A o \in FilterWorkload(bdg[key].workload, sbp[n].stages[Position(sbp[n])]) :
                  \E c \in cs : c.obj = o /\ c.bp = bp[key].uid /\ c.sat
        PROVE  FALSE
    <2> DEFINE e == Tracked(n)
               s == Position(sbp[n])
    <2>1. e # None /\ e.stages = sbp[n].stages /\ e \in Entries
      <3>1. SameVersion(e, sbp[n])
        BY <1>1, QuietTracks
      <3>2. e \in Entries \cup {None}
        BY <1>1 DEF TypeInv, TableInv, Tracked
      <3> QED
        BY <1>1, <3>1, <3>2 DEF SameVersion
    <2>2. ItemInv(n) /\ RolloutInv(n) /\ Wakes(n)
      BY <1>1 DEF StageInv, ItemsInv, RolloutsInv, WakeInv
    <2>3. ~Noting(n) /\ ~StagingUp(n) /\ ~Deploying(n) /\ ~Attempting(n)
      BY <1>1 DEF Quiet, Noting, Holds, StagingUp, Deploying, Attempting, OpOn
    <2>4. \A item : ~Comes(item)
      BY <1>1 DEF Quiet, Comes
    <2>5. ~Unnoted(n)
      BY <2>1, <2>2, <2>3 DEF ItemInv
    <2>6. e.activeIndex + 1 = s
      BY <2>1, <2>2, <2>3, <2>5 DEF RolloutInv, IndexOK
    <2>7. e.activeIndex \in Nat /\ Len(sbp[n].stages) \in Nat /\ s \in 1..Len(sbp[n].stages)
      BY <1>1, <2>1, StageNameTyped, PositionTyped DEF Entries, TypeInv
    <2>8. ActiveKey(n) = key /\ Stage(e, e.activeIndex) = sbp[n].stages[s]
      BY <1>1, <2>1, <2>6, <2>7 DEF ActiveKey, Key, Stage
    <2>9. HasUid(n)
      <3>1. StageDeployed(n, e.activeIndex + 1)
        BY <1>1, <2>6, <2>7 DEF Current, StageDeployed, Deployed
      <3> QED
        BY <2>1, <2>2, <2>3, <2>5, <3>1 DEF Wakes, DeployedHasUid
    <2>10. /\ key \in BPKeys /\ e.activeBindingPolicyUID \in Uids
           /\ bp[key].uid = e.activeBindingPolicyUID
           /\ Bears(key, e.activeBindingPolicyUID)
      BY <1>1, <2>1, <2>8, <2>9, HasUidBears DEF TypeInv, StageInv, HasUid, ActiveKey
    <2>11. bdgCache = bdg /\ csCache = cs
      BY <1>1 DEF Quiet
    <2>12. e.bindingSpec = bdg[key].workload
      BY <1>1, <2>1, <2>2, <2>4, <2>8, <2>9, <2>10, <2>11 DEF Wakes, BindingNoted, Current
    <2>13. Checked(n) = FilterWorkload(bdg[key].workload, sbp[n].stages[s])
      BY <2>8, <2>12 DEF Checked
    <2>14. ASSUME NEW o \in Checked(n) PROVE \E c \in Matching(n, o) : c.sat
      <3>1. PICK c \in cs : c.obj = o /\ c.bp = e.activeBindingPolicyUID /\ c.sat
        BY <1>1, <2>10, <2>13
      <3>2. c.label \in BPKeys /\ Bears(c.label, e.activeBindingPolicyUID)
        BY <1>1, <3>1 DEF TypeInv, WdsTypeOK, CombinedStatuses, Bears, ReportBears
      <3>3. c.label = key
        BY <1>1, <2>10, <3>2 DEF BearersInv
      <3> QED
        BY <2>8, <2>11, <3>1, <3>3 DEF Matching
    <2>15. Fulfilled(n)
      BY <1>1, <2>8, <2>13, <2>14 DEF Fulfilled
    <2>16. ~StatusComes(n)
      BY <2>4 DEF StatusComes
    <2> QED
      BY <2>1, <2>2, <2>3, <2>9, <2>15, <2>16 DEF Wakes, Woken
  <1>2. TypeInv /\ QueueInv /\ StageInv /\ BearersInv /\ WakeInv => SettledUnfulfilled
    <2> SUFFICES ASSUME TypeInv, QueueInv, StageInv, BearersInv, WakeInv, Quiet,
                        NEW n \in SBPs, sbp[n] # None, Position(sbp[n]) > 0
                 PROVE  LET stage == sbp[n].stages[Position(sbp[n])]
                            key == <<n, stage.name>>
                            checked == IF Current(key) THEN FilterWorkload(bdg[key].workload, stage) ELSE {}
                        IN  stage.cond /\ checked # {} =>
                                \E o \in checked :
                                    \A c \in cs : c.obj = o /\ c.bp = bp[key].uid => ~c.sat
      BY DEF SettledUnfulfilled
    <2> DEFINE stage == sbp[n].stages[Position(sbp[n])]
               checked(key) == IF Current(key) THEN FilterWorkload(bdg[key].workload, stage) ELSE {}
    <2> PICK key : key = <<n, stage.name>>
      OBVIOUS
    <2> SUFFICES ASSUME stage.cond, checked(key) # {},
                        \A o \in checked(key) : \E c \in cs : c.obj = o /\ c.bp = bp[key].uid /\ c.sat
                 PROVE  FALSE
      OBVIOUS
    <2>1. Current(key) /\ checked(key) = FilterWorkload(bdg[key].workload, stage)
      OBVIOUS
    <2> QED
      BY <1>1, <2>1
  <1> QED
    BY <1>2, WakesInvariant, PTL

-----------------------------------------------------------------------------
(* A stage is left on what its own Binding and statuses say.  This takes   *)
(* the workload to stay, conditions to keep holding and no process to be   *)
(* killed; one that was killed may have left the next stage deployed,      *)
(* whose Create then fails, and the stage that was taken down for it would *)
(* be left again on what the store still has of it.                        *)
Steady == {"crash", "workload", "regress"} \cap EventKinds = {}

WorkloadInv ==
    /\ \A k \in BPKeys : bdg[k] # None => bdg[k].workload = objs
    /\ \A k \in BPKeys : bdgCache[k] # None => bdgCache[k].workload = objs
    /\ \A w \in Workers : ReadAs(w, "bdg") => worker[w].obj.workload = objs
    /\ \A n \in SBPs : Tracked(n) # None => Tracked(n).bindingSpec \in {{}, objs}
    /\ \A c \in cs : c.obj \in objs

(* A status of a BindingPolicy that exists is one of its Binding, and one  *)
(* that says the condition holds is up to date.                            *)
UnderUid(c) == bp[c.label] # None /\ bp[c.label].uid = c.bp

ReportsInv == \A c \in cs \cup csCache : UnderUid(c) => Current(c.label) /\ (c.sat => c \in cs)

(* The condition holds on the objects that have been checked; those still  *)
(* to check are among the objects of the Binding that the filter admits.   *)
Holding(n, o) ==
    \E c \in cs : c.obj = o /\ c.label = ActiveKey(n) /\ c.bp = Tracked(n).activeBindingPolicyUID /\ c.sat

TodoOK(n) == OpOn(n) /\ op.pc = "attempt" => op.todo \subseteq Checked(n)

TodoInv == \A n \in SBPs : TodoOK(n)

CheckedOK(n) ==
    OpOn(n) /\ op.pc = "attempt" => \A o \in Checked(n) \ op.todo : Holding(n, o)

CheckedInv == \A n \in SBPs : CheckedOK(n)

LEMMA NextWorkloads ==
  ASSUME LeftAlone, "workload" \notin EventKinds, NamesSplit, TypeInv, ReadsHold, CopiesInv, ItemsInv,
         SpecsInv', WorkloadInv, [Next]_vars
  PROVE  WorkloadInv'
  <1>1. WdsTypeOK /\ TableInv /\ WorkersTyped /\ CachesTyped /\ NoRelist
    BY LeftAloneIs DEF TypeInv
  <1>2. CASE Environment
    <2>1. WdsNext /\ UNCHANGED <<stagedBindingPolicies, bdgCache, worker>>
      BY <1>2 DEF Environment, resolverVars, cacheVars, queueVars
    <2>2. UNCHANGED objs
      <3>1. ~(\E o \in Objects : WorkloadChanges(o))
        BY DEF WorkloadChanges, Event
      <3> QED
        BY <2>1, <3>1 DEF WdsNext, UserCreates, UserEdits, UserDeletes, CollectBP, KubeStellar,
          KsBinds, KsRebinds, KsUnbinds, KsReports, KsRetracts
    <2>3. ASSUME NEW k \in BPKeys, bdg'[k] # None PROVE bdg'[k].workload = objs
      <3>1. CASE bdg'[k] = bdg[k]
        BY <2>3, <3>1 DEF WorkloadInv
      <3>2. CASE bdg'[k] # bdg[k]
        <4>1. PICK j \in BPKeys : KsBinds(j) \/ KsRebinds(j) \/ KsUnbinds(j)
          BY <2>1, <3>2 DEF WdsNext, UserCreates, UserEdits, UserDeletes, WorkloadChanges, CollectBP,
            KubeStellar, KsReports, KsRetracts
        <4>2. ~KsRebinds(j)
          BY DEF KsRebinds, Current, WorkloadInv
        <4>3. CASE KsBinds(j)
          <5> DEFINE new == [bp |-> bp[j].uid, gen |-> 1, workload |-> objs]
          <5>1. bdg' = [bdg EXCEPT ![j] = new] /\ new.workload = objs
            BY <4>3 DEF KsBinds
          <5> HIDE DEF new
          <5> QED
            BY <1>1, <3>2, <5>1 DEF WdsTypeOK
        <4>4. CASE KsUnbinds(j)
          BY <1>1, <2>3, <3>2, <4>4 DEF KsUnbinds, WdsTypeOK
        <4> QED
          BY <4>1, <4>2, <4>3, <4>4
      <3> QED
        BY <3>1, <3>2
    <2>4. ASSUME NEW c \in cs' PROVE c.obj \in objs
      <3>1. CASE cs' \subseteq cs
        BY <3>1 DEF WorkloadInv
      <3>2. ASSUME NEW k \in BPKeys, NEW o \in Objects, NEW sat \in BOOLEAN, KsReports(k, o, sat)
            PROVE  c.obj \in objs
        <4> DEFINE new == [label |-> k, obj |-> o, bp |-> bdg[k].bp, sat |-> sat]
        <4>1. c \in cs \/ c = new
          BY <2>4, <3>2 DEF KsReports
        <4>2. new.obj = o /\ o \in bdg[k].workload /\ bdg[k] # None
          BY <3>2 DEF KsReports
        <4> HIDE DEF new
        <4> QED
          BY <4>1, <4>2 DEF WorkloadInv
      <3> QED
        BY <2>1, <3>1, <3>2 DEF WdsNext, UserCreates, UserEdits, UserDeletes, WorkloadChanges, CollectBP,
          KubeStellar, KsBinds, KsRebinds, KsUnbinds, KsRetracts
    <2> QED
      BY <2>1, <2>2, <2>3, <2>4 DEF WorkloadInv, ReadAs, Tracked
  <1>3. CASE ~Environment
    <2>1. UNCHANGED <<bdg, cs, objs>>
      BY <1>3, OpStepsKeep DEF Next, Informers, DeliverPolicy, DeliverBinding, DeliverStatus, WorkerStep,
        Get, ReadLister, Reconcile, Finish, Resolve, Requeue, Crash, Panic, Restart, vars, wdsVars
    <2>2. ASSUME NEW k \in BPKeys, bdgCache'[k] # None PROVE bdgCache'[k].workload = objs
      <3>1. CASE bdgCache'[k] \in {bdgCache[k], bdg[k]}
        BY <2>2, <3>1 DEF WorkloadInv
      <3>2. ASSUME NEW j \in BPKeys, DeliverBinding(j) PROVE bdgCache'[k] \in {None, bdgCache[k], bdg[k]}
        BY <1>1, <3>2, DeliverBindingParts
      <3>3. CASE Crash \/ Panic
        BY <2>2, <3>3 DEF Crash, Panic, LoseMemory
      <3> QED
        BY <1>3, <2>2, <3>1, <3>2, <3>3 DEF Next, Informers, DeliverPolicy, DeliverStatus, WorkerStep,
          Get, ReadLister, Reconcile, Finish, Resolve, Requeue, Restart, vars, cacheVars
    <2>3. ASSUME NEW v \in Workers, ReadAs(v, "bdg")' PROVE worker'[v].obj.workload = objs
      <3>1. CASE worker'[v] = worker[v]
        BY <2>3, <3>1 DEF WorkloadInv, ReadAs
      <3>2. ASSUME NEW w \in Workers, ReadLister(w) PROVE worker'[v].obj.workload = objs
        <4>1. CASE v # w
          BY <1>1, <3>1, <3>2, <4>1, ReadListerParts
        <4>2. CASE v = w
          <5>1. worker'[v].obj = bdgCache[worker'[v].item[2]] /\ worker'[v].obj # None
            BY <1>1, <2>3, <3>2, <4>2, ReadListerReads DEF ReadAs
          <5>2. worker'[v].item \in Items
            BY <1>1, <2>3, <3>2, <4>2, ReadListerParts, ReadListerReads DEF ReadAs
          <5> QED
            BY <2>3, <5>1, <5>2, ItemForms DEF WorkloadInv, ReadAs
        <4> QED
          BY <4>1, <4>2
      <3>3. ASSUME NEW w \in Workers, NEW item \in dirty, Get(w, item) PROVE worker'[v] = worker[v]
        <4>1. item \in Items /\ item # None
          BY ControllerAssumption DEF TypeInv, QueueTyped
        <4> QED
          BY <1>1, <2>3, <3>3, <4>1, GetParts DEF ReadAs
      <3>4. ASSUME NEW w \in Workers, Reconcile(w) \/ Finish(w) PROVE worker'[v] = worker[v]
        BY <1>1, <2>3, <3>4, ReconcileMoves, FinishMoves DEF ReadAs
      <3>5. CASE Crash \/ Panic
        BY <2>3, <3>5, LoseMemoryParts DEF Crash, Panic, ReadAs
      <3> QED
        BY <1>3, <3>1, <3>2, <3>3, <3>4, <3>5 DEF Next, Informers, DeliverPolicy, DeliverBinding,
          DeliverStatus, WorkerStep, Resolve, Requeue, Restart, vars, queueVars
    <2>4. ASSUME NEW n \in SBPs, Tracked(n)' # None PROVE Tracked(n)'.bindingSpec \in {{}, objs}
      <3>1. CASE Tracked(n)' = Tracked(n)
        BY <2>4, <3>1 DEF WorkloadInv
      <3>2. CASE Resolve
        <4>1. Tracked(n)' = Tracked(n) \/ SameBinding(n)
          BY <1>1, <3>2, OpStepsBindings DEF Resolve
        <4> QED
          BY <2>4, <4>1, ResolverAssumption DEF WorkloadInv, SameBinding
      <3>3. ASSUME NEW w \in Workers, Reconcile(w) PROVE Tracked(n)'.bindingSpec \in {{}, objs}
        <4>1. Begins(w)
          BY <3>3, CallBegins
        <4>2. CASE worker[w].item[1] = "sbp"
          <5> DEFINE m == worker[w].item[2]
          <5>1. m \in SBPs /\ worker[w].item = PolicyRef(m)
            BY <4>1, <4>2, ItemParts, PolicyItem DEF Begins
          <5>2. CASE m = n
            <6>1. Tracked(n)'.activeBindingPolicyUID = NoUid
              BY <2>4, <3>3, <5>1, <5>2, ReconcileParts
            <6> QED
              BY <2>4, <6>1 DEF SpecsInv, Unnoted
          <5>3. CASE m # n
            <6>1. worker[w].obj # None => worker[w].obj \in SBPObjects
              BY <1>1, <4>1, <4>2 DEF WorkersTyped, WorkerOK, Found, Begins
            <6>2. OthersKept(m)
              BY <1>1, <3>3, <4>2, <5>1, <6>1, NotedParts, DeletedParts DEF Reconcile
            <6> QED
              BY <3>1, <5>3, <6>2 DEF OthersKept
          <5> QED
            BY <5>2, <5>3
        <4>3. CASE worker[w].item[1] = "bdg"
          <5> PICK k, binding, m : k = worker[w].item[2] /\ binding = worker[w].obj /\ m = k[1]
            OBVIOUS
          <5>1. ReadAs(w, "bdg") /\ k \in BPKeys /\ binding \in BindingObjects /\ NoteBinding(k, binding)
            BY <1>1, <3>3, <4>1, <4>3, ReadsTyped, ItemForms DEF ReadAs, Begins, Reconcile
          <5>2. binding.workload = objs
            BY <5>1 DEF WorkloadInv
          <5>3. TableKept \/ (m \in SBPs /\ OthersKept(m) /\ Tracked(m)'.bindingSpec = objs)
            BY <1>1, <5>1, <5>2, NoteBindingDetail DEF EntryBecomes
          <5> QED
            BY <3>1, <5>3 DEF TableKept, OthersKept, Tracked
        <4>4. CASE worker[w].item[1] = "cs"
          BY <3>1, <3>3, <4>4 DEF Reconcile, NoteCombinedStatus, Tracked
        <4> QED
          BY <3>3, <4>2, <4>3, <4>4 DEF Reconcile
      <3>4. CASE Crash \/ Panic
        BY <2>4, <3>4, LoseMemoryParts DEF Crash, Panic
      <3> QED
        BY <1>3, <3>1, <3>2, <3>3, <3>4 DEF Next, Informers, DeliverPolicy, DeliverBinding,
          DeliverStatus, WorkerStep, Get, ReadLister, Finish, Requeue, Restart, vars, resolverVars, Tracked
    <2> QED
      BY <2>1, <2>2, <2>3, <2>4 DEF WorkloadInv
  <1> QED
    BY <1>2, <1>3

LEMMA CurrentKept ==
  ASSUME TypeInv, WorkloadInv, WdsNext, UNCHANGED bp, NEW k \in BPKeys, Current(k)
  PROVE  Current(k)'
  <1>1. bdg \in [BPKeys -> BindingObjects \cup {None}]
    BY DEF TypeInv, WdsTypeOK
  <1>2. bdg'[k] = bdg[k]
    <2> SUFFICES ASSUME bdg'[k] # bdg[k] PROVE FALSE
      OBVIOUS
    <2>1. PICK j \in BPKeys : KsBinds(j) \/ KsRebinds(j) \/ KsUnbinds(j)
      BY DEF WdsNext, UserCreates, UserEdits, UserDeletes, WorkloadChanges, CollectBP, KubeStellar,
        KsReports, KsRetracts
    <2>2. ~KsRebinds(j)
      BY DEF KsRebinds, Current, WorkloadInv
    <2>3. KsBinds(j) => j # k /\ bdg'[k] = bdg[k]
      <3> SUFFICES ASSUME KsBinds(j) PROVE j # k /\ bdg'[k] = bdg[k]
        OBVIOUS
      <3> DEFINE new == [bp |-> bp[j].uid, gen |-> 1, workload |-> objs]
      <3>1. bdg[j] = None /\ bdg' = [bdg EXCEPT ![j] = new]
        BY DEF KsBinds
      <3>2. j # k
        BY <3>1 DEF Current
      <3> HIDE DEF new
      <3> QED
        BY <1>1, <3>1, <3>2
    <2>4. KsUnbinds(j) => j # k /\ bdg'[k] = bdg[k]
      BY <1>1 DEF KsUnbinds
    <2> QED
      BY <2>1, <2>2, <2>3, <2>4
  <1> QED
    BY <1>2 DEF Current

(* KubeStellar takes back no status that says the condition holds.         *)
LEMMA SatKept ==
  ASSUME Steady, TypeInv, BearersInv, WorkloadInv, WdsNext,
         NEW c \in cs, c.sat, Current(c.label), bdg[c.label].bp = c.bp
  PROVE  c \in cs'
  <1>1. /\ c \in CombinedStatuses /\ c.label \in BPKeys /\ c.bp \in Uids /\ c.sat = TRUE
        /\ Bears(c.label, c.bp)
    BY DEF TypeInv, WdsTypeOK, CombinedStatuses, Bears, ReportBears
  <1>2. ASSUME NEW k \in BPKeys, NEW o \in Objects, NEW sat \in BOOLEAN, KsReports(k, o, sat)
        PROVE  c \in cs'
    <2> DEFINE old == Reports(o, bdg[k].bp)
               new == [label |-> k, obj |-> o, bp |-> bdg[k].bp, sat |-> sat]
    <2>1. bdg[k] # None /\ cs' = (cs \ old) \cup {new} /\ (old # {} => sat)
      BY <1>2 DEF KsReports, Event, Steady
    <2>2. CASE c \notin old
      BY <2>1, <2>2
    <2>3. CASE c \in old
      <3>1. c.obj = o /\ c.bp = bdg[k].bp
        BY <2>3 DEF Reports
      <3>2. Bears(k, c.bp)
        BY <2>1, <3>1 DEF Bears
      <3>3. c.label = k
        BY <1>1, <3>2 DEF BearersInv
      <3>4. sat = TRUE
        BY <2>1, <2>3
      <3>5. c = new
        BY <1>1, <3>1, <3>3, <3>4 DEF CombinedStatuses
      <3> HIDE DEF new, old
      <3> QED
        BY <2>1, <3>5
    <2> QED
      BY <2>2, <2>3
  <1>3. ASSUME NEW d \in cs, KsRetracts(d) PROVE c \in cs'
    <2>1. Bound(c)
      BY <1>1 DEF Bound, Current, WorkloadInv
    <2>2. c # d /\ cs' = cs \ {d}
      BY <1>3, <2>1 DEF KsRetracts
    <2> QED
      BY <2>2
  <1>4. CASE UNCHANGED cs
    BY <1>4
  <1> QED
    BY <1>2, <1>3, <1>4 DEF WdsNext, UserCreates, UserEdits, UserDeletes, WorkloadChanges, CollectBP,
      KubeStellar, KsBinds, KsRebinds, KsUnbinds

LEMMA NextReports ==
  ASSUME LeftAlone, Steady, TypeInv, RolloutsInv, BearersInv, WorkloadInv, ReportsInv, [Next]_vars
  PROVE  ReportsInv'
  <1> SUFFICES ASSUME NEW c \in cs' \cup csCache', UnderUid(c)'
               PROVE  Current(c.label)' /\ (c.sat => c \in cs')
    BY DEF ReportsInv
  <1>1. WdsTypeOK /\ WdsTypeOK' /\ CachesTyped'
    BY NextTyped DEF TypeInv
  <1>2. c.label \in BPKeys /\ c.bp \in Uids
    BY <1>1 DEF WdsTypeOK, CachesTyped, CombinedStatuses
  <1>3. CASE Environment
    <2>1. WdsNext /\ UNCHANGED <<bp, csCache>>
      BY <1>1, <1>3, NothingCollected DEF Environment, cacheVars
    <2>2. UnderUid(c)
      BY <2>1 DEF UnderUid
    <2>3. Current(c.label)
      <3>1. CASE c \in cs \cup csCache
        BY <2>2, <3>1 DEF ReportsInv
      <3>2. CASE c \notin cs \cup csCache
        BY <1>1, <2>1, <2>2, <3>2, KubeStellarMoves DEF UnderUid, Current
      <3> QED
        BY <3>1, <3>2
    <2>4. Current(c.label)'
      BY <1>2, <2>1, <2>3, CurrentKept
    <2>5. ASSUME c.sat PROVE c \in cs'
      <3>1. CASE c \in csCache
        <4>1. c \in cs
          BY <2>2, <2>5, <3>1 DEF ReportsInv
        <4> QED
          BY <2>1, <2>2, <2>3, <2>5, <4>1, SatKept DEF UnderUid, Current
      <3> QED
        BY <2>1, <3>1
    <2> QED
      BY <2>4, <2>5
  <1>4. CASE ~Environment
    <2>1. UNCHANGED <<bdg, cs>>
      BY <1>4, OpStepsKeep DEF Next, Informers, DeliverPolicy, DeliverBinding, DeliverStatus, WorkerStep,
        Get, ReadLister, Reconcile, Finish, Resolve, Requeue, Crash, Panic, Restart, vars, wdsVars
    <2>2. csCache' \subseteq csCache \cup cs
      <3>1. ASSUME NEW o \in Objects, NEW u \in 1..(nextUid - 1), DeliverStatus(o, u)
            PROVE  csCache' \subseteq csCache \cup cs
        BY <3>1 DEF DeliverStatus, Reports
      <3>2. CASE Crash \/ Panic
        BY <3>2 DEF Crash, Panic, LoseMemory
      <3> QED
        BY <1>4, <3>1, <3>2 DEF Next, Informers, DeliverPolicy, DeliverBinding, WorkerStep,
          Get, ReadLister, Reconcile, Finish, Resolve, Requeue, Restart, vars, cacheVars
    <2>3. c \in cs \cup csCache
      BY <2>1, <2>2
    <2>4. Bears(c.label, c.bp)
      BY <2>3 DEF Bears, ReportBears
    <2>5. c.bp # nextUid
      <3>1. c.bp < nextUid
        BY <1>2, <2>4 DEF BearersInv
      <3>2. nextUid \in Nat
        BY <1>1 DEF WdsTypeOK, Uids
      <3> QED
        BY <3>1, <3>2
    <2>6. bp'[c.label] = bp[c.label]
      BY <1>2, <2>5, NextBpMoves DEF BpMoves, UnderUid
    <2>7. UnderUid(c)
      BY <2>6 DEF UnderUid
    <2> QED
      BY <2>1, <2>3, <2>6, <2>7 DEF ReportsInv, Current
  <1> QED
    BY <1>3, <1>4

(* With no process killed, the stage the table calls active is deployed,   *)
(* under the UID the table has of it.                                      *)
LEMMA ActiveIsDeployed ==
  ASSUME TypeInv, ReadsHold, CopiesInv, NEW n \in SBPs, RolloutInv(n), nextUid <= MaxUid, "crash" \notin EventKinds,
         Tracked(n) # None, ~Unnoted(n), ~StagingUp(n)
  PROVE  HasUid(n)
  <1> DEFINE i == Tracked(n).activeIndex
             s == Position(sbp[n])
  <1> SUFFICES ASSUME ~HasUid(n) PROVE FALSE
    OBVIOUS
  <1>1. StageDeployed(n, i + 2) /\ ~Deploying(n)
    BY DEF RolloutInv, Live
  <1>2. i + 1 = s
    BY <1>1 DEF RolloutInv, IndexOK
  <1>3. sbp[n] # None
    BY RolloutOfNone
  <1>4. Tracked(n) \in Entries
    BY DEF TypeInv, TableInv, Tracked
  <1>5. i \in Nat
    BY <1>4 DEF Entries
  <1>6. i + 2 = s + 1
    BY <1>2, <1>5
  <1>7. StageDeployed(n, s + 1)
    BY <1>1, <1>6
  <1> QED
    BY <1>1, <1>3, <1>7 DEF RolloutInv, NoneAhead

LEMMA AttemptTodo ==
  ASSUME NEW n \in SBPs, NEW e \in Entries, op' = Attempt(n, e), op'.pc = "attempt"
  PROVE  op'.todo = FilterWorkload(e.bindingSpec, Stage(e, e.activeIndex))
  <1>1. e.activeIndex < Len(e.stages) /\ Stage(e, e.activeIndex).cond
    BY AttemptTyped
  <1>2. e.activeIndex \in Nat /\ Len(e.stages) \in Nat
    BY DEF Entries
  <1>3. op' # Returns(n)
    BY DEF Returns, OpAt
  <1>4. FilterWorkload(e.bindingSpec, Stage(e, e.activeIndex)) # {}
    BY <1>2, <1>3 DEF Attempt
  <1> QED
    BY <1>1, <1>4, AttemptChecks

\* A call that begins has all its objects still to check.
LEMMA CallChecks ==
  ASSUME TypeInv, NEW w \in Workers, Reconcile(w), NEW n \in SBPs
  PROVE  OpOn(n)' /\ op'.pc = "attempt" => op'.todo = Checked(n)'
  <1> SUFFICES ASSUME OpOn(n)', op'.pc = "attempt" PROVE op'.todo = Checked(n)'
    OBVIOUS
  <1> DEFINE item == worker[w].item
             obj == worker[w].obj
  <1>1. TableInv /\ WorkersTyped /\ Begins(w) /\ op' # None /\ op'.sbp = n
    BY CallBegins DEF TypeInv, OpOn
  <1>2. ASSUME NEW m, NEW e, e \in Entries, m \in SBPs, op' = Attempt(m, e), e = Tracked(m)'
        PROVE  op'.todo = Checked(n)'
    <2>1. m = n
      BY <1>1, <1>2, AttemptTyped
    <2>2. op'.todo = FilterWorkload(e.bindingSpec, Stage(e, e.activeIndex))
      BY <1>2, AttemptTodo
    <2> QED
      BY <1>2, <2>1, <2>2 DEF Checked, FilterWorkload, Stage, Tracked
  <1>3. ASSUME item[1] = "sbp" PROVE op'.pc # "attempt"
    <2>1. item[2] \in SBPs /\ (obj # None => obj \in SBPObjects)
      BY <1>1, <1>3, ItemParts DEF Begins, WorkersTyped, WorkerOK, Found
    <2> QED
      BY <1>1, <1>3, <2>1, NotedParts, DeletedParts DEF Reconcile, OpBecomes
  <1>4. CASE item[1] = "bdg"
    <2> PICK k, binding : k = item[2] /\ binding = obj
      OBVIOUS
    <2>1. k \in BPKeys /\ binding \in BindingObjects /\ NoteBinding(k, binding)
      BY <1>1, <1>4, ReadsTyped, ItemForms DEF ReadAs, Begins, Reconcile
    <2> DEFINE m == OwnerOf[k]
               e == EntryOf(k)
               noted == [e EXCEPT !.bindingSpec = binding.workload]
    <2>2. IsActiveBinding(e, binding)
      BY <2>1 DEF NoteBinding, Returns, OpAt
    <2>3. m \in SBPs /\ e \in Entries /\ e = stagedBindingPolicies[m]
      BY <1>1, <2>1, <2>2, EntryOfTyped DEF IsActiveBinding
    <2>4. binding.workload \in SUBSET Objects
      BY <2>1 DEF BindingObjects
    <2>5. noted \in Entries
      BY <2>3, <2>4 DEF Entries
    <2>6. stagedBindingPolicies' = [stagedBindingPolicies EXCEPT ![m] = noted] /\ op' = Attempt(m, noted)
      BY <2>1, <2>2 DEF NoteBinding
    <2> HIDE DEF noted
    <2>7. Tracked(m)' = noted
      BY <1>1, <2>3, <2>6 DEF TableInv, Tracked
    <2> QED
      BY <1>2, <2>3, <2>5, <2>6, <2>7
  <1>5. CASE item[1] = "cs"
    <2> PICK status : status = obj
      OBVIOUS
    <2>1. status \in CombinedStatuses /\ NoteCombinedStatus(status)
      BY <1>1, <1>5, ReadsTyped DEF ReadAs, Begins, Reconcile
    <2>2. status.label \in BPKeys
      BY <2>1 DEF CombinedStatuses
    <2> DEFINE m == OwnerOf[status.label]
               e == EntryOf(status.label)
    <2>3. e # None
      BY <2>1 DEF NoteCombinedStatus, Returns, OpAt
    <2>4. m \in SBPs /\ e \in Entries /\ e = stagedBindingPolicies[m]
      BY <1>1, <2>2, <2>3, EntryOfTyped
    <2>5. op' = Attempt(m, e) /\ UNCHANGED stagedBindingPolicies
      BY <2>1, <2>3 DEF NoteCombinedStatus
    <2> QED
      BY <1>2, <2>4, <2>5 DEF Tracked
  <1> QED
    BY <1>3, <1>4, <1>5 DEF Reconcile

LEMMA EarlyCalls ==
  ASSUME WdsTypeOK, TableInv, EndIsSure, DeletePrevious \/ CreateActive \/ GetPolicy
  PROVE  op'.pc # "attempt"
  <1>1. OpSteps /\ op.pc \in {"delete", "create", "get"}
    BY DEF OpSteps, DeletePrevious, CreateActive, GetPolicy, At
  <1>2. PICK p \in SBPs : op.sbp = p
    BY <1>1, OpStepsBusy
  <1>3. Deletes(p) \/ Deploys(p) \/ Refused(p) \/ ReadsPolicy(p)
    BY <1>1, <1>2, SureSteps DEF Waits, LeavesStage, Announces
  <1> QED
    BY <1>3 DEF Deletes, Deploys, Refused, ReadsPolicy, OpBecomes

LEMMA UpdateChecks ==
  ASSUME TypeInv, UpdateStatus, NEW n \in SBPs, OpOn(n)', op'.pc = "attempt"
  PROVE  op'.todo = Checked(n)'
  <1>1. WdsTypeOK /\ TableInv /\ OpSteps
    BY DEF TypeInv, OpSteps
  <1>2. Continue
    BY DEF UpdateStatus, Fail, Returns, OpAt
  <1>3. PICK p \in SBPs : op.sbp = p
    BY <1>1, OpStepsBusy
  <1>4. op' = Attempt(p, Entry) /\ UNCHANGED stagedBindingPolicies
    BY <1>2, <1>3 DEF Continue, Returns, OpAt
  <1>5. Entry \in Entries /\ Entry = Tracked(p)
    BY <1>1, <1>3, OpStepsBusy, InProgressTyped DEF Entry, Tracked
  <1>6. p = n
    BY <1>4, <1>5, AttemptTyped DEF OpOn
  <1>7. op'.todo = FilterWorkload(Entry.bindingSpec, Stage(Entry, Entry.activeIndex))
    BY <1>4, <1>5, AttemptTodo
  <1> QED
    BY <1>4, <1>5, <1>6, <1>7 DEF Checked, FilterWorkload, Stage, Tracked

\* A round of the loop that does not end it.
LEMMA CheckObjectRound ==
  ASSUME TypeInv, NEW o \in Objects, CheckObject(o), NEW n \in SBPs, OpOn(n)', op'.pc = "attempt"
  PROVE  /\ OpOn(n) /\ op.pc = "attempt" /\ op.sbp = n
         /\ op'.todo = op.todo \ {o}
         /\ Tracked(n)' = Tracked(n)
         /\ \E c \in Matches(Entry, o) : c.sat
  <1> DEFINE rest == op.todo \ {o}
  <1>1. op # None /\ op.pc = "attempt" /\ op \in Ops
    <2>1. op # None /\ op.pc = "attempt"
      BY DEF CheckObject, At
    <2> QED
      BY <2>1 DEF TypeInv, TableInv
  <1>2. op'.pc # "return" /\ op'.pc # "delete" /\ op'.pc # "create"
    OBVIOUS
  <1>3. /\ op' = [op EXCEPT !.todo = rest] /\ UNCHANGED stagedBindingPolicies
        /\ \E c \in Matches(Entry, o) : c.sat
    BY <1>2 DEF CheckObject, Returns, OpAt, EnsureActiveStage
  <1>4. op'.sbp = op.sbp /\ op'.todo = rest
    <2>1. rest \in SUBSET Objects
      BY <1>1 DEF Ops
    <2> HIDE DEF rest
    <2> QED
      BY <1>1, <1>3, <2>1 DEF Ops
  <1> QED
    BY <1>1, <1>3, <1>4 DEF OpOn, Tracked

LEMMA NextTodo ==
  ASSUME LeftAlone, TypeInv, ReadsHold, TodoInv, [Next]_vars
  PROVE  TodoInv'
  <1> SUFFICES ASSUME NEW n \in SBPs, OpOn(n)', op'.pc = "attempt" PROVE op'.todo \subseteq Checked(n)'
    BY DEF TodoInv, TodoOK
  <1>1. TodoOK(n) /\ WdsTypeOK /\ TableInv
    BY DEF TodoInv, TypeInv
  <1>2. CASE UNCHANGED <<stagedBindingPolicies, op>>
    BY <1>1, <1>2 DEF TodoOK, OpOn, Checked, FilterWorkload, Stage, Tracked
  <1>3. ASSUME NEW w \in Workers, Reconcile(w) PROVE op'.todo = Checked(n)'
    BY <1>3, CallChecks
  <1>4. op' # None
    BY DEF OpOn
  <1>5. CASE Resolve
    <2>1. OpSteps /\ EndIsSure
      BY <1>5, LeftAloneIs, ReadsMakeSure DEF Resolve
    <2>2. PICK p \in SBPs : op.sbp = p
      BY <1>1, <2>1, OpStepsBusy
    <2>3. ASSUME NEW o \in Objects, CheckObject(o) PROVE op'.todo \subseteq Checked(n)'
      <3>1. OpOn(n) /\ op.pc = "attempt" /\ op'.todo = op.todo \ {o} /\ Tracked(n)' = Tracked(n)
        BY <2>3, CheckObjectRound
      <3>2. Checked(n)' = Checked(n)
        BY <3>1 DEF Checked, FilterWorkload, Stage
      <3> QED
        BY <1>1, <3>1, <3>2 DEF TodoOK
    <2>4. CASE UpdateStatus
      BY <2>4, UpdateChecks
    <2>5. CASE DeletePrevious \/ CreateActive \/ GetPolicy
      BY <1>1, <2>1, <2>2, <2>5, EarlyCalls
    <2> QED
      BY <2>1, <2>3, <2>4, <2>5 DEF OpSteps
  <1> QED
    BY <1>2, <1>3, <1>4, <1>5 DEF Next, Environment, Informers, DeliverPolicy, DeliverBinding, DeliverStatus,
      WorkerStep, Get, ReadLister, Finish, Requeue, Crash, Panic, LoseMemory, Restart, vars, resolverVars

LEMMA CheckedKept ==
  ASSUME NEW n \in SBPs, CheckedOK(n), UNCHANGED op, Tracked(n)' = Tracked(n),
         \A c \in cs : /\ OpOn(n) /\ op.pc = "attempt" /\ c.label = ActiveKey(n)
                       /\ c.bp = Tracked(n).activeBindingPolicyUID /\ c.sat
                       => c \in cs'
  PROVE  CheckedOK(n)'
  <1> SUFFICES ASSUME OpOn(n), op.pc = "attempt" PROVE CheckedOK(n)'
    BY DEF CheckedOK, OpOn
  <1>1. Checked(n)' = Checked(n) /\ ActiveKey(n)' = ActiveKey(n)
    BY DEF Checked, ActiveKey, Key, FilterWorkload, Stage
  <1>2. ASSUME NEW o, Holding(n, o) PROVE Holding(n, o)'
    BY <1>1, <1>2 DEF Holding
  <1> QED
    BY <1>1, <1>2 DEF CheckedOK

(* What the store has of a checked object is what the API server has.      *)
LEMMA CheckObjectHolds ==
  ASSUME "crash" \notin EventKinds, nextUid <= MaxUid, TypeInv, ReadsHold, CopiesInv, SpecsInv, RolloutsInv,
         ReportsInv, NEW o \in Objects, CheckObject(o), NEW n \in SBPs, op.sbp = n,
         \E c \in Matches(Entry, o) : c.sat
  PROVE  HasUid(n) /\ Holding(n, o)
  <1>1. op # None /\ op.pc = "attempt" /\ Entry = Tracked(n) /\ OpOn(n)
    BY DEF CheckObject, At, Entry, Tracked, OpOn
  <1>2. Tracked(n) # None /\ ~Unnoted(n) /\ ~StagingUp(n)
    BY <1>1, OnTracked DEF SpecsInv, AttemptOK, TypeInv, TableInv, OpOK, StagingUp
  <1>3. HasUid(n)
    BY <1>2, ActiveIsDeployed DEF RolloutsInv
  <1>4. PICK c \in Matches(Entry, o) : c.sat
    OBVIOUS
  <1>5. Tracked(n).activeBindingPolicyUID # NoUid
    BY <1>2 DEF Unnoted
  <1>6. /\ c \in csCache /\ c.obj = o /\ c.label = ActiveKey(n)
        /\ c.bp = Tracked(n).activeBindingPolicyUID
    BY <1>1, <1>4, <1>5 DEF Matches, ActiveKey
  <1>7. UnderUid(c)
    <2>1. bp[ActiveKey(n)] # None
      <3>1. Tracked(n).stages = sbp[n].stages
        BY <1>2 DEF CopiesInv, CopyOf, SameVersion
      <3> QED
        BY <1>3, <3>1 DEF HasUid, StageDeployed, Deployed, ActiveKey, Key, Stage
    <2>2. bp[ActiveKey(n)].uid = Tracked(n).activeBindingPolicyUID
      BY <1>3 DEF HasUid, ActiveKey
    <2> QED
      BY <1>6, <2>1, <2>2 DEF UnderUid
  <1>8. c \in cs
    BY <1>4, <1>6, <1>7 DEF ReportsInv
  <1> QED
    BY <1>3, <1>4, <1>6, <1>8 DEF Holding

LEMMA CheckObjectChecked ==
  ASSUME "crash" \notin EventKinds, nextUid <= MaxUid, TypeInv, ReadsHold, CopiesInv, SpecsInv, RolloutsInv,
         ReportsInv, NEW o \in Objects, CheckObject(o), NEW n \in SBPs, CheckedOK(n)
  PROVE  CheckedOK(n)'
  <1> SUFFICES ASSUME OpOn(n)', op'.pc = "attempt" PROVE CheckedOK(n)'
    BY DEF CheckedOK
  <1>1. /\ OpOn(n) /\ op.pc = "attempt" /\ op.sbp = n
        /\ op'.todo = op.todo \ {o} /\ Tracked(n)' = Tracked(n)
        /\ \E c \in Matches(Entry, o) : c.sat
    BY CheckObjectRound
  <1>2. Holding(n, o)
    BY <1>1, CheckObjectHolds
  <1>3. UNCHANGED cs
    BY DEF CheckObject, wdsVars
  <1>4. Checked(n)' = Checked(n) /\ ActiveKey(n)' = ActiveKey(n)
    BY <1>1 DEF Checked, ActiveKey, Key, FilterWorkload, Stage
  <1>5. ASSUME NEW x, Holding(n, x) PROVE Holding(n, x)'
    BY <1>1, <1>3, <1>4, <1>5 DEF Holding
  <1>6. \A x \in Checked(n) \ op.todo : Holding(n, x)
    BY <1>1 DEF CheckedOK
  <1> QED
    BY <1>1, <1>2, <1>4, <1>5, <1>6 DEF CheckedOK

LEMMA NextChecked ==
  ASSUME LeftAlone, Steady, nextUid <= MaxUid, TypeInv, ReadsHold, CopiesInv, SpecsInv, RolloutsInv,
         BearersInv, WorkloadInv, ReportsInv, CheckedInv, [Next]_vars
  PROVE  CheckedInv'
  <1> SUFFICES ASSUME NEW n \in SBPs PROVE CheckedOK(n)'
    BY DEF CheckedInv
  <1>1. CheckedOK(n) /\ WdsTypeOK /\ TableInv /\ "crash" \notin EventKinds
    BY DEF CheckedInv, TypeInv, Steady
  <1>2. CASE Environment
    <2>1. WdsNext /\ UNCHANGED op /\ Tracked(n)' = Tracked(n)
      BY <1>2 DEF Environment, resolverVars, Tracked
    <2>2. ASSUME NEW c \in cs, OpOn(n), op.pc = "attempt", c.label = ActiveKey(n),
                 c.bp = Tracked(n).activeBindingPolicyUID, c.sat
          PROVE  c \in cs'
      <3>1. Tracked(n) # None /\ ~Unnoted(n) /\ ~StagingUp(n)
        BY <1>1, <2>2, OnTracked DEF OpOn, SpecsInv, AttemptOK, TableInv, OpOK, StagingUp
      <3>2. HasUid(n)
        BY <1>1, <3>1, ActiveIsDeployed DEF RolloutsInv
      <3>3. Tracked(n).stages = sbp[n].stages
        BY <3>1 DEF CopiesInv, CopyOf, SameVersion
      <3>4. UnderUid(c)
        BY <2>2, <3>2, <3>3 DEF UnderUid, HasUid, StageDeployed, Deployed, ActiveKey, Key, Stage
      <3>5. Current(c.label)
        BY <3>4 DEF ReportsInv
      <3> QED
        BY <2>1, <2>2, <3>4, <3>5, SatKept DEF UnderUid, Current
    <2> QED
      BY <1>1, <2>1, <2>2, CheckedKept
  <1>3. CASE UNCHANGED <<stagedBindingPolicies, op, cs>>
    <2>1. UNCHANGED op /\ Tracked(n)' = Tracked(n) /\ UNCHANGED cs
      BY <1>3 DEF Tracked
    <2> QED
      BY <1>1, <2>1, CheckedKept
  <1>4. ASSUME NEW w \in Workers, Reconcile(w) PROVE CheckedOK(n)'
    BY <1>4, CallChecks DEF CheckedOK
  <1>5. CASE op' = None
    BY <1>5 DEF CheckedOK, OpOn
  <1>6. CASE Resolve
    <2>1. OpSteps /\ EndIsSure
      BY <1>6, LeftAloneIs, ReadsMakeSure DEF Resolve
    <2>2. PICK p \in SBPs : op.sbp = p
      BY <1>1, <2>1, OpStepsBusy
    <2>3. ASSUME NEW o \in Objects, CheckObject(o) PROVE CheckedOK(n)'
      BY <1>1, <2>3, CheckObjectChecked
    <2>5. CASE UpdateStatus
      BY <2>5, UpdateChecks DEF CheckedOK
    <2>6. CASE DeletePrevious \/ CreateActive \/ GetPolicy
      BY <1>1, <2>1, <2>6, EarlyCalls DEF CheckedOK
    <2> QED
      BY <2>1, <2>3, <2>5, <2>6 DEF OpSteps
  <1> QED
    BY <1>2, <1>3, <1>4, <1>5, <1>6 DEF Next, Informers, DeliverPolicy, DeliverBinding, DeliverStatus,
      WorkerStep, Get, ReadLister, Finish, Requeue, Crash, Panic, LoseMemory, Restart, vars, resolverVars, wdsVars

LEMMA ChecksInvariant ==
  ASSUME LeftAlone, DistinctNames, NamesSplit, Steady
  PROVE  Spec /\ [](nextUid <= MaxUid) =>
            [](TypeInv /\ ReadsHold /\ StageInv /\ WorkloadInv /\ ReportsInv /\ TodoInv /\ CheckedInv)
  <1>1. Spec => [](TypeInv /\ ReadsHold /\ QueueInv /\ StageInv)
    BY StagesInvariant
  <1>2. Spec => []BearersInv
    BY WakesInvariant, PTL
  <1>3. Init => WorkloadInv /\ ReportsInv /\ TodoInv /\ CheckedInv
    <2> SUFFICES ASSUME Init PROVE WorkloadInv /\ ReportsInv /\ TodoInv /\ CheckedInv
      OBVIOUS
    <2>1. /\ \A k \in BPKeys : bdg[k] = None /\ bdgCache[k] = None
          /\ cs = {} /\ csCache = {} /\ op = None
          /\ \A w \in Workers : worker[w].pc = "idle"
          /\ \A n \in SBPs : Tracked(n) = None
      BY DEF Init, WdsInit, ResolverStart, IdleWorker, Busy, Tracked
    <2> QED
      BY <2>1 DEF WorkloadInv, ReadAs, ReportsInv, TodoInv, TodoOK, CheckedInv, CheckedOK, OpOn
  <1>4. ASSUME TypeInv, ReadsHold, StageInv, StageInv', BearersInv, nextUid <= MaxUid,
               WorkloadInv, ReportsInv, TodoInv, CheckedInv, [Next]_vars
        PROVE  WorkloadInv' /\ ReportsInv' /\ TodoInv' /\ CheckedInv'
    <2>1. CopiesInv /\ ItemsInv /\ RolloutsInv /\ SpecsInv /\ SpecsInv'
      BY <1>4 DEF StageInv
    <2> QED
      BY <1>4, <2>1, NextWorkloads, NextReports, NextTodo, NextChecked DEF Steady
  <1> QED
    BY <1>1, <1>2, <1>3, <1>4, PTL DEF Spec

(* A stage is left only when its condition holds, in the API server and at *)
(* that moment, on every object of the Binding that its own BindingPolicy  *)
(* has: not on what the store still has of an earlier stage, of another    *)
(* BindingPolicy or of a smaller workload.  For any number of policies,    *)
(* stages, objects and workers, as long as conditions that hold keep       *)
(* holding and no Create is refused for want of a UID.                     *)
THEOREM StagesLeftForGood ==
  ASSUME LeftAlone, DistinctNames, NamesSplit, Steady
  PROVE  Spec /\ [](nextUid <= MaxUid) => StageUpJustified
  <1> DEFINE Justified ==
        StagesUp =>
          LET e == Entry
              key == Key(op.sbp, e, e.activeIndex)
          IN  /\ Current(key)
              /\ \A o \in FilterWorkload(bdg[key].workload, Stage(e, e.activeIndex)) :
                     \E c \in cs : c.obj = o /\ c.bp = bp[key].uid /\ c.sat
  <1>1. ASSUME TypeInv, ReadsHold, StageInv, WorkloadInv, ReportsInv, TodoInv, CheckedInv, nextUid <= MaxUid,
               [Next]_vars, StagesUp
        PROVE  LET e == Entry
                   key == Key(op.sbp, e, e.activeIndex)
               IN  /\ Current(key)
                   /\ \A o \in FilterWorkload(bdg[key].workload, Stage(e, e.activeIndex)) :
                          \E c \in cs : c.obj = o /\ c.bp = bp[key].uid /\ c.sat
    <2>1. /\ op # None /\ op.pc = "attempt" /\ op' # None /\ op'.staging /\ op' # op
          /\ WdsTypeOK /\ TableInv /\ CopiesInv /\ SpecsInv /\ RolloutsInv /\ "crash" \notin EventKinds
      BY <1>1 DEF StagesUp, At, TypeInv, TableInv, OpOK, StageInv, Steady
    <2>2. PICK o \in Objects : CheckObject(o)
      <3>1. CASE Resolve
        BY <2>1, <3>1 DEF Resolve, OpSteps, DeletePrevious, CreateActive, GetPolicy, UpdateStatus, At
      <3>2. ASSUME NEW w \in Workers, Reconcile(w) PROVE FALSE
        BY <1>1, <2>1, <3>2, CallBegins DEF Begins
      <3> QED
        BY <1>1, <2>1, <3>1, <3>2 DEF Next, Environment, Informers, DeliverPolicy, DeliverBinding, DeliverStatus,
          WorkerStep, Get, ReadLister, Finish, Requeue, Crash, Panic, LoseMemory, Restart, vars, resolverVars
    <2>3. PICK n \in SBPs : op.sbp = n
      <3>1. op \in Ops
        BY <2>1 DEF TableInv
      <3> QED
        BY <3>1 DEF Ops
    <2>4. op.todo \ {o} = {} /\ o \in op.todo /\ \E c \in Matches(Entry, o) : c.sat
      <3>1. op'.staging = TRUE
        BY <2>1, <2>2, <2>3, CheckObjectParts DEF OpBecomes
      <3>2. op' # Returns(op.sbp)
        BY <3>1 DEF Returns, OpAt
      <3>3. op' # [op EXCEPT !.todo = op.todo \ {o}]
        <4> DEFINE rest == op.todo \ {o}
        <4>1. ~op.staging /\ op \in Ops
          BY <2>1, <2>2, <2>3, CheckObjectParts DEF TableInv
        <4>2. [op EXCEPT !.todo = rest].staging = op.staging
          <5> HIDE DEF rest
          <5> QED
            BY <4>1 DEF Ops
        <4>3. ~[op EXCEPT !.todo = rest].staging
          BY <4>1, <4>2
        <4> QED
          BY <3>1, <4>3
      <3> QED
        BY <2>2, <3>2, <3>3 DEF CheckObject
    <2>5. HasUid(n) /\ Holding(n, o)
      BY <1>1, <2>1, <2>2, <2>3, <2>4, CheckObjectHolds
    <2>6. op.todo \subseteq Checked(n) /\ \A x \in Checked(n) : Holding(n, x)
      <3>1. TodoOK(n) /\ CheckedOK(n) /\ OpOn(n)
        BY <1>1, <2>1, <2>3 DEF TodoInv, CheckedInv, OpOn
      <3> QED
        BY <2>1, <2>4, <2>5, <3>1 DEF TodoOK, CheckedOK
    <2>7. Entry = Tracked(n) /\ Tracked(n) # None /\ Tracked(n).stages = sbp[n].stages
      <3>1. Entry = Tracked(n) /\ Tracked(n) # None
        BY <2>1, <2>3 DEF Entry, Tracked, TableInv, OpOK
      <3> QED
        BY <2>1, <3>1 DEF CopiesInv, CopyOf, SameVersion
    <2>8. bp[ActiveKey(n)] # None /\ bp[ActiveKey(n)].uid = Tracked(n).activeBindingPolicyUID
      BY <2>5, <2>7 DEF HasUid, StageDeployed, Deployed, ActiveKey, Key, Stage
    <2>9. ActiveKey(n) \in BPKeys
      BY <1>1, <2>1, <2>5, <2>7, HasUidBears
    <2>10. Current(ActiveKey(n))
      <3>1. PICK c \in cs : c.label = ActiveKey(n) /\ c.bp = Tracked(n).activeBindingPolicyUID
        BY <2>5 DEF Holding
      <3> QED
        BY <1>1, <2>8, <3>1 DEF ReportsInv, UnderUid
    <2>11. bdg[ActiveKey(n)].workload = Tracked(n).bindingSpec
      <3>1. bdg[ActiveKey(n)].workload = objs
        BY <1>1, <2>9, <2>10 DEF WorkloadInv, Current
      <3>2. Tracked(n).bindingSpec # {}
        BY <2>4, <2>6 DEF Checked, FilterWorkload
      <3>3. Tracked(n).bindingSpec \in {{}, objs}
        BY <1>1, <2>7 DEF WorkloadInv
      <3> QED
        BY <3>1, <3>2, <3>3
    <2> QED
      BY <2>3, <2>6, <2>7, <2>8, <2>10, <2>11 DEF Checked, Holding, ActiveKey
  <1>2. TypeInv /\ ReadsHold /\ StageInv /\ WorkloadInv /\ ReportsInv /\ TodoInv /\ CheckedInv
            /\ nextUid <= MaxUid /\ [Next]_vars
            => Justified
    BY <1>1
  <1>3. Spec /\ [](nextUid <= MaxUid) => [][Justified]_vars
    BY <1>2, ChecksInvariant, PTL DEF Spec
  <1> QED
    BY <1>3 DEF StageUpJustified
=============================================================================
