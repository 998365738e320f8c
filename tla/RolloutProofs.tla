----------------------------- MODULE RolloutProofs -----------------------------
(***************************************************************************)
(* Proofs about the rollout itself: at most one stage of a policy is       *)
(* deployed, the status moves from stage to stage, and every step of the   *)
(* system is a step of StagedRollout or invisible to it, for any number of *)
(* policies, stages, workers, crashes and panics.  They take users to      *)
(* leave their policies alone, no API call to fail and stage names to be   *)
(* distinct.                                                               *)
(***************************************************************************)
EXTENDS QueueProofs

LeftAlone == {"fault", "edit", "delete", "relist"} \cap EventKinds = {}

Distinct(stages) == \A i, j \in 1..Len(stages) : stages[i].name = stages[j].name => i = j

DistinctNames == \A stages \in StageLists : Distinct(stages)

-----------------------------------------------------------------------------
(* Every copy of a policy is one of the policy that exists.                *)
CopyOf(x, n) == x # None => SameVersion(x, sbp[n])

CopiesInv ==
    \A n \in SBPs :
        /\ sbp[n] # None => Distinct(sbp[n].stages)
        /\ CopyOf(Tracked(n), n)
        /\ CopyOf(sbpCache[n], n)
        /\ sbpCache[n] # None => sbpCache[n].gen = sbp[n].gen

(* No Create has succeeded in this life of the process; no Binding has     *)
(* been noted then either, and no condition is attempted.                  *)
Unnoted(n) == Tracked(n) # None => Tracked(n).activeBindingPolicyUID = NoUid

AttemptOK ==
    op # None /\ op.pc = "attempt" =>
        ~Unnoted(op.sbp) /\ Stage(Entry, Entry.activeIndex).cond

SpecsInv ==
    /\ \A n \in SBPs : Tracked(n) # None /\ Unnoted(n) => Tracked(n).bindingSpec = {}
    /\ AttemptOK

(* The item of a policy is in one place, and only until its first Create   *)
(* succeeds; up to then nobody writes the status, so no copy of it is old. *)
Pending(n) ==
    \/ PolicyRef(n) \in dirty \cup delayed
    \/ \E w \in Workers : Holds(w, n) /\ worker[w].pc # "resolving"

OnePlace(n) ==
    /\ PolicyRef(n) \notin dirty \cap delayed
    /\ \A w \in Workers : Holds(w, n) =>
          /\ PolicyRef(n) \notin dirty \cup delayed
          /\ \A v \in Workers : Holds(v, n) => v = w

OpOn(n) == op # None /\ op.sbp = n

NotesFirst(n) == OpOn(n) /\ ~op.staging /\ op.pc \in {"delete", "create"}

(* The worker's call for policy n: what it was made for, how it ends.      *)
HolderOK(w, n) ==
    Holds(w, n) =>
        /\ worker[w].pc = "read" => worker[w].obj = sbp[n]
        /\ worker[w].pc = "resolving" =>
              OpOn(n) /\ (op.pc = "return" => (op.err <=> Unnoted(n)))

ItemInv(n) ==
    /\ OnePlace(n)
    /\ sbpCache[n] = None => ~Noting(n) /\ Tracked(n) = None
    /\ Pending(n) => Unnoted(n)
    /\ Unnoted(n) => sbpCache[n] \in {None, sbp[n]}
    /\ Tracked(n) # None /\ Unnoted(n) => Noting(n)
    /\ \A w \in Workers : HolderOK(w, n)
    /\ NotesFirst(n) => Unnoted(n) /\ \E w \in Workers : Holds(w, n) /\ worker[w].pc = "resolving"
    /\ OpOn(n) /\ op.pc # "return" /\ Unnoted(n) => NotesFirst(n)

ItemsInv == \A n \in SBPs : ItemInv(n)

-----------------------------------------------------------------------------
(* The stage at position j of policy n is deployed.                        *)
StageDeployed(n, j) == j \in 1..Len(sbp[n].stages) /\ Deployed(n, sbp[n].stages[j].name)

Deploying(n) == OpOn(n) /\ op.pc \in {"get", "update"}

(* Where a rollout stands: s is the position the status names, i the one   *)
(* before the stage the table calls active.                                *)
DeployedNear(n) ==
    \A name \in StageNames : Deployed(n, name) =>
        /\ sbp[n] # None
        /\ bp[<<n, name>>].owner = sbp[n].uid
        /\ \E j \in {Position(sbp[n]), Position(sbp[n]) + 1} :
              StageDeployed(n, j) /\ sbp[n].stages[j].name = name

NoneAhead(n) ==
    sbp[n] # None /\ StageDeployed(n, Position(sbp[n]) + 1) =>
        \/ "crash" \in EventKinds
        \/ Deploying(n) /\ Tracked(n).activeIndex = Position(sbp[n])

IndexOK(n) ==
    LET s == Position(sbp[n])
        i == Tracked(n).activeIndex
    IN  Tracked(n) # None =>
          IF StagingUp(n)
          THEN /\ i = s /\ s \in 1..Len(sbp[n].stages) /\ sbp[n].stages[s].cond
               /\ op.pc # "delete" => ~StageDeployed(n, s)
          ELSE i + 1 = s \/ (i = 0 /\ s = 0 /\ (Unnoted(n) \/ Deploying(n)))

HasUid(n) ==
    LET e == Tracked(n)
    IN  /\ StageDeployed(n, e.activeIndex + 1)
        /\ bp[Key(n, e, e.activeIndex)].uid = e.activeBindingPolicyUID

(* The stage the table calls active is deployed, or the next one that was  *)
(* left in its way is.                                                     *)
Live(n) ==
    Tracked(n) # None /\ ~Unnoted(n) /\ ~StagingUp(n) /\ nextUid <= MaxUid =>
        HasUid(n) \/ StageDeployed(n, Tracked(n).activeIndex + 2)

Deleting(n) == OpOn(n) /\ op.pc = "delete"

RolloutInv(n) ==
    /\ DeployedNear(n)
    /\ NoneAhead(n)
    /\ IndexOK(n)
    /\ Deleting(n) => Tracked(n).activeIndex > 0
    /\ Deploying(n) => HasUid(n)
    /\ Live(n)

RolloutsInv == \A n \in SBPs : RolloutInv(n)

(* No two policies have the same UID.                                      *)
UidsDiffer ==
    \A n, m \in SBPs : sbp[n] # None /\ sbp[m] # None /\ sbp[n].uid = sbp[m].uid => n = m

StageInv == CopiesInv /\ UidsDiffer /\ SpecsInv /\ ItemsInv /\ RolloutsInv

-----------------------------------------------------------------------------
LEMMA LeftAloneIs ==
  ASSUME LeftAlone
  PROVE  Undisturbed /\ NoRelist
  BY DEF LeftAlone, Undisturbed, NoRelist

(* Positions of distinct names.                                            *)
LEMMA PositionTyped ==
  ASSUME NEW obj \in SBPObjects
  PROVE  /\ Len(obj.stages) \in Nat
         /\ Position(obj) \in 0..Len(obj.stages)
         /\ Position(obj) # 0 =>
               Position(obj) \in 1..Len(obj.stages) /\ obj.stages[Position(obj)].name = obj.active
         /\ Position(obj) = 0 => \A i \in 1..Len(obj.stages) : obj.stages[i].name # obj.active
  <1> DEFINE at == {i \in 1..Len(obj.stages) : obj.stages[i].name = obj.active}
  <1>1. Len(obj.stages) \in Nat
    BY DEF SBPObjects
  <1>2. CASE at = {}
    <2>1. Position(obj) = 0
      BY <1>2 DEF Position
    <2> QED
      BY <1>1, <1>2, <2>1
  <1>3. CASE at # {}
    <2>1. Position(obj) = CHOOSE i \in at : TRUE
      BY <1>3 DEF Position
    <2>2. \E i \in at : TRUE
      BY <1>3
    <2>3. Position(obj) \in at
      BY <2>1, <2>2
    <2>4. Position(obj) \in 1..Len(obj.stages) /\ obj.stages[Position(obj)].name = obj.active
      BY <2>3
    <2> HIDE DEF at
    <2> QED
      BY <1>1, <2>4
  <1> QED
    BY <1>2, <1>3

LEMMA PositionIs ==
  ASSUME NEW obj \in SBPObjects, Distinct(obj.stages),
         NEW j \in 1..Len(obj.stages), obj.stages[j].name = obj.active
  PROVE  Position(obj) = j
  <1>1. Position(obj) # 0
    BY PositionTyped
  <1> QED
    BY <1>1, PositionTyped DEF Distinct

LEMMA PositionOfNone ==
  ASSUME NEW obj \in SBPObjects, obj.active = None
  PROVE  Position(obj) = 0
  <1>1. ASSUME NEW i \in 1..Len(obj.stages) PROVE obj.stages[i].name \in StageNames
    <2>1. obj.stages \in Seq(Stages) /\ Len(obj.stages) \in Nat
      BY DEF SBPObjects
    <2>2. obj.stages[i] \in Stages
      BY <2>1
    <2> QED
      BY <2>2 DEF Stages
  <1> QED
    BY <1>1, PositionTyped, WdsAssumption

(* A noted policy resumes at the stage its status names, or at the first.  *)
LEMMA ActiveStageIs ==
  ASSUME NEW obj \in SBPObjects, Distinct(obj.stages)
  PROVE  \/ ActiveStage(obj) + 1 = Position(obj)
         \/ ActiveStage(obj) = 0 /\ Position(obj) = 0
  <1> DEFINE named == {i \in 0..(Len(obj.stages) - 1) : obj.stages[i + 1].name = obj.active}
  <1>1. Len(obj.stages) \in Nat
    BY PositionTyped
  <1>2. CASE named = {}
    <2>1. ActiveStage(obj) = 0
      BY <1>2 DEF ActiveStage
    <2>2. \A j \in 1..Len(obj.stages) : obj.stages[j].name # obj.active
      <3> SUFFICES ASSUME NEW j \in 1..Len(obj.stages), obj.stages[j].name = obj.active PROVE FALSE
        OBVIOUS
      <3>1. j - 1 \in 0..(Len(obj.stages) - 1) /\ j - 1 + 1 = j
        BY <1>1
      <3>2. j - 1 \in named
        BY <3>1
      <3> QED
        BY <1>2, <3>2
    <2>3. Position(obj) = 0
      BY <2>2, PositionTyped
    <2> QED
      BY <2>1, <2>3
  <1>3. CASE named # {}
    <2>1. ActiveStage(obj) = CHOOSE i \in named : \A j \in named : i <= j
      BY <1>3 DEF ActiveStage
    <2>2. named \subseteq Nat
      BY <1>1
    <2>3. \E i \in named : \A j \in named : i <= j
      <3> HIDE DEF named
      <3> QED
        BY <1>3, <2>2, LeastNatural
    <2>4. ActiveStage(obj) \in named
      BY <2>1, <2>3
    <2>5. /\ ActiveStage(obj) + 1 \in 1..Len(obj.stages)
          /\ obj.stages[ActiveStage(obj) + 1].name = obj.active
      BY <1>1, <2>4
    <2> HIDE DEF named
    <2> QED
      BY <2>5, PositionIs
  <1> QED
    BY <1>2, <1>3

-----------------------------------------------------------------------------
(* What users do to a policy that is left alone.                           *)
LEMMA UsersOnlyCreate ==
  ASSUME Undisturbed, WdsTypeOK, WdsNext, NEW n \in SBPs
  PROVE  \/ sbp'[n] = sbp[n]
         \/ /\ sbp[n] = None
            /\ sbp'[n] \in SBPObjects
            /\ sbp'[n].uid = nextUid
            /\ sbp'[n].stages \in StageLists
            /\ sbp'[n].active = None
  <1>1. ~(\E m \in SBPs, stages \in StageLists : UserEdits(m, stages))
    BY DEF UserEdits, Event, Undisturbed
  <1>2. ~(\E m \in SBPs : UserDeletes(m))
    BY DEF UserDeletes, Event, Undisturbed
  <1>3. ASSUME NEW m \in SBPs, NEW stages \in StageLists, UserCreates(m, stages)
        PROVE  \/ sbp'[n] = sbp[n]
               \/ /\ sbp[n] = None
                  /\ sbp'[n] \in SBPObjects
                  /\ sbp'[n].uid = nextUid
                  /\ sbp'[n].stages \in StageLists
                  /\ sbp'[n].active = None
    <2> DEFINE new == [uid |-> nextUid, gen |-> 1, stages |-> stages, active |-> None]
    <2>1. stages \in Seq(Stages)
      BY WdsAssumption
    <2>2. new \in SBPObjects /\ new.uid = nextUid /\ new.stages = stages /\ new.active = None
      BY <2>1 DEF WdsTypeOK, SBPObjects
    <2>3. sbp' = [sbp EXCEPT ![m] = new] /\ sbp[m] = None
      BY <1>3 DEF UserCreates
    <2> HIDE DEF new
    <2> QED
      BY <2>2, <2>3 DEF WdsTypeOK
  <1>4. CASE \E o \in Objects : WorkloadChanges(o)
    BY <1>4 DEF WorkloadChanges
  <1>5. CASE \E k \in BPKeys : CollectBP(k) \/ KubeStellar(k)
    BY <1>5 DEF CollectBP, KubeStellar, KsBinds, KsRebinds, KsUnbinds, KsReports, KsRetracts
  <1> QED
    BY <1>1, <1>2, <1>3, <1>4, <1>5 DEF WdsNext

(* The informer gives a policy's creation, which is queued, and after that *)
(* what changes in its status, which is not.                               *)
LEMMA DeliverFirst ==
  ASSUME NoRelist, TypeInv, ReadsHold, CopiesInv, NEW m \in SBPs, DeliverPolicy(m)
  PROVE  /\ sbp[m] # None
         /\ sbpCache'[m] = sbp[m]
         /\ \A n \in SBPs : n # m => sbpCache'[n] = sbpCache[n]
         /\ dirty' = IF sbpCache[m] = None THEN dirty \cup {PolicyRef(m)} ELSE dirty
         /\ UNCHANGED <<sbp, bp, nextUid, resolverVars, delayed, worker, up, panicked>>
  <1> DEFINE old == sbpCache[m]
             replaced == old # None /\ sbp[m] # None /\ old.uid # sbp[m].uid
  <1>1. PICK new \in Seen(old, sbp[m], replaced) :
           /\ sbpCache' = [sbpCache EXCEPT ![m] = new]
           /\ dirty' = IF Enqueues(old, new) THEN dirty \cup {PolicyRef(m)} ELSE dirty
    BY DEF DeliverPolicy
  <1>2. old # sbp[m] /\ UNCHANGED <<sbp, bp, nextUid, resolverVars, delayed, worker, up, panicked>>
    BY DEF DeliverPolicy
  <1>3. sbpCache'[m] = new /\ \A n \in SBPs : n # m => sbpCache'[n] = sbpCache[n]
    BY <1>1 DEF TypeInv, CachesTyped
  <1>4. sbp[m] # None
    BY <1>2 DEF ReadsHold
  <1>5. ~replaced
    BY DEF CopiesInv, CopyOf, SameVersion
  <1>6. new = sbp[m]
    BY <1>1, <1>5 DEF Seen
  <1>7. Enqueues(old, new) <=> old = None
    BY <1>4, <1>6 DEF Enqueues, CopiesInv
  <1> HIDE DEF old, replaced
  <1> QED
    BY <1>1, <1>2, <1>3, <1>4, <1>6, <1>7 DEF old

-----------------------------------------------------------------------------
(* A condition is attempted for a stage that has one, on a Binding that    *)
(* was noted for it.                                                       *)
LEMMA AttemptSure ==
  ASSUME NEW n \in SBPs, NEW e \in Entries, Attempt(n, e).pc = "attempt"
  PROVE  e.bindingSpec # {} /\ Stage(e, e.activeIndex).cond
  <1>1. Stage(e, e.activeIndex).cond
    BY AttemptTyped
  <1>2. Attempt(n, e) # Returns(n)
    BY DEF Returns, OpAt
  <1>3. FilterWorkload(e.bindingSpec, Stage(e, e.activeIndex)) # {}
    BY <1>2 DEF Attempt
  <1> QED
    BY <1>1, <1>3 DEF FilterWorkload

SameBinding(n) ==
    /\ Tracked(n) \in Entries
    /\ Tracked(n)' \in Entries
    /\ Tracked(n)'.bindingSpec = Tracked(n).bindingSpec
    /\ \/ Tracked(n)'.activeBindingPolicyUID = Tracked(n).activeBindingPolicyUID
       \/ Tracked(n)'.activeBindingPolicyUID = nextUid

LEMMA OpStepsBindings ==
  ASSUME WdsTypeOK, TableInv, OpSteps, NEW n \in SBPs
  PROVE  Tracked(n)' = Tracked(n) \/ SameBinding(n)
  <1> PICK p \in SBPs : op.sbp = p
    BY OpStepsBusy
  <1>1. TableInv' /\ Tracked(p) \in Entries
    BY OpStepsTyped, OpStepsBusy, InProgressTyped DEF Tracked, Entry
  <1>2. \/ TableKept
        \/ stagedBindingPolicies' = [stagedBindingPolicies EXCEPT ![p].activeIndex = @ - 1]
        \/ stagedBindingPolicies' = [stagedBindingPolicies EXCEPT ![p].activeIndex = @ + 1]
        \/ stagedBindingPolicies' = [stagedBindingPolicies EXCEPT ![p].activeBindingPolicyUID = nextUid]
    <2>1. Fail => \/ TableKept
                  \/ stagedBindingPolicies' = [stagedBindingPolicies EXCEPT ![p].activeIndex = @ - 1]
      BY DEF Fail, TableKept
    <2> QED
      BY <2>1 DEF OpSteps, CheckObject, DeletePrevious, CreateActive, GetPolicy, UpdateStatus, Continue, TableKept
  <1>3. \A e \in Entries : \A i : LET f == [e EXCEPT !.activeIndex = i]
                                   IN  /\ f.bindingSpec = e.bindingSpec
                                       /\ f.activeBindingPolicyUID = e.activeBindingPolicyUID
    BY DEF Entries
  <1>4. \A e \in Entries : \A u : LET f == [e EXCEPT !.activeBindingPolicyUID = u]
                                   IN  f.bindingSpec = e.bindingSpec /\ f.activeBindingPolicyUID = u
    BY DEF Entries
  <1>5. CASE n # p
    BY <1>2, <1>5 DEF TableKept, TableInv, Tracked
  <1>6. CASE n = p
    <2>1. \/ Tracked(n)' = Tracked(n)
          \/ Tracked(n)' = [Tracked(n) EXCEPT !.activeIndex = @ - 1]
          \/ Tracked(n)' = [Tracked(n) EXCEPT !.activeIndex = @ + 1]
          \/ Tracked(n)' = [Tracked(n) EXCEPT !.activeBindingPolicyUID = nextUid]
      BY <1>2, <1>6 DEF TableKept, TableInv, Tracked
    <2>2. \/ Tracked(n)' = Tracked(n)
          \/ /\ Tracked(n)'.bindingSpec = Tracked(n).bindingSpec
             /\ Tracked(n)'.activeBindingPolicyUID \in {Tracked(n).activeBindingPolicyUID, nextUid}
      <3>1. Tracked(n) \in Entries
        BY <1>1, <1>6
      <3>2. \A i : LET f == [Tracked(n) EXCEPT !.activeIndex = i]
                   IN  /\ f.bindingSpec = Tracked(n).bindingSpec
                       /\ f.activeBindingPolicyUID = Tracked(n).activeBindingPolicyUID
        BY <1>3, <3>1
      <3>3. LET f == [Tracked(n) EXCEPT !.activeBindingPolicyUID = nextUid]
            IN  /\ f.bindingSpec = Tracked(n).bindingSpec
                /\ f.activeBindingPolicyUID = nextUid
        BY <1>4, <3>1
      <3> QED
        BY <2>1, <3>2, <3>3
    <2>3. OpSteps => Tracked(n)' = Tracked(n) \/ Tracked(n)' \in Entries
      BY <1>1, <1>6, OpStepsSame DEF TracksSame
    <2> QED
      BY <1>1, <1>6, <2>2, <2>3 DEF SameBinding
  <1> QED
    BY <1>5, <1>6

LEMMA OpStepsAttempt ==
  ASSUME WdsTypeOK, TableInv, SpecsInv, OpSteps
  PROVE  AttemptOK'
  <1> PICK p \in SBPs : op.sbp = p
    BY OpStepsBusy
  <1>1. op # None /\ op \in Ops /\ Entry = Tracked(p) /\ Entry \in Entries
    BY OpStepsBusy, InProgressTyped DEF Entry, Tracked
  <1>2. ASSUME Fail PROVE op'.pc = "return"
    BY <1>1, <1>2, OpStepsBusy, FailParts DEF OpBecomes
  <1>3. ASSUME TableKept, op'.sbp = p PROVE Entry' = Entry /\ Unnoted(p)' = Unnoted(p)
    BY <1>1, <1>3 DEF TableKept, Entry, Unnoted, Tracked
  <1>4. op' # None /\ op'.sbp = p
    BY OpStepsSame, ResolverAssumption
  <1> SUFFICES ASSUME op'.pc = "attempt" PROVE ~Unnoted(p)' /\ Stage(Entry, Entry.activeIndex)'.cond
    BY <1>4 DEF AttemptOK
  <1>5. CASE \E o \in Objects : CheckObject(o)
    <2>1. op.pc = "attempt" /\ TableKept
      BY <1>5, CheckObjectParts DEF OpBecomes
    <2> QED
      BY <1>1, <1>3, <1>4, <2>1 DEF SpecsInv, AttemptOK, Stage
  <1>6. CASE DeletePrevious
    BY <1>2, <1>6, DeletePreviousParts DEF OpBecomes
  <1>7. CASE CreateActive
    <2>1. Fail \/ OpBecomes(p, "get", op.staging)
      BY <1>7, CreateActiveParts
    <2> QED
      BY <1>2, <2>1 DEF OpBecomes
  <1>8. CASE GetPolicy
    BY <1>2, <1>8, GetPolicyParts DEF OpBecomes
  <1>9. CASE UpdateStatus
    <2>1. Continue \/ Fail
      BY <1>9 DEF UpdateStatus
    <2>2. Continue
      BY <1>2, <2>1
    <2>3. TableKept
      BY <2>2 DEF Continue, TableKept
    <2>4. op' = Attempt(p, Entry)
      BY <1>1, <2>2 DEF Continue, Returns, OpAt
    <2>5. Entry.bindingSpec # {} /\ Stage(Entry, Entry.activeIndex).cond
      BY <1>1, <2>4, AttemptSure
    <2> QED
      BY <1>1, <1>3, <1>4, <2>3, <2>5, ResolverAssumption DEF SpecsInv, Stage
  <1> QED
    BY <1>5, <1>6, <1>7, <1>8, <1>9 DEF OpSteps

-----------------------------------------------------------------------------
(* A call that is not made for a policy's own item: at most the Binding of *)
(* a policy whose stage is deployed is kept, and a condition attempted.    *)
OwnBinding(n) == SameEntry(n) /\ ~Unnoted(n)

LEMMA BindingAttempts ==
  ASSUME TableInv, SpecsInv, NEW key \in BPKeys, NEW binding \in BindingObjects, NoteBinding(key, binding)
  PROVE  /\ op' \in Ops /\ op'.pc \in {"return", "attempt"}
         /\ AttemptOK'
         /\ \A n \in SBPs : Tracked(n)' = Tracked(n) \/ OwnBinding(n)
  <1> DEFINE n == OwnerOf[key]
             e == EntryOf(key)
             noted == [e EXCEPT !.bindingSpec = binding.workload]
  <1>1. CASE ~IsActiveBinding(e, binding)
    <2>1. key[1] \in SBPs /\ op' = Returns(key[1]) /\ UNCHANGED stagedBindingPolicies
      BY <1>1, EntryOfTyped DEF NoteBinding
    <2>2. op' \in Ops /\ op'.pc = "return"
      BY <2>1, ReturnsParts DEF OpBecomes
    <2> QED
      BY <2>1, <2>2 DEF AttemptOK, Tracked
  <1>2. CASE IsActiveBinding(e, binding)
    <2>1. e # None /\ e.activeBindingPolicyUID = binding.bp /\ binding.bp # NoUid
      BY <1>2 DEF IsActiveBinding, BindingObjects, Uids
    <2>2. n \in SBPs /\ e = Tracked(n) /\ e \in Entries
      BY <2>1, EntryOfTyped DEF Tracked
    <2>3. /\ stagedBindingPolicies' = [stagedBindingPolicies EXCEPT ![n] = noted]
          /\ op' = Attempt(n, noted)
      BY <1>2 DEF NoteBinding
    <2>4. /\ noted \in Entries /\ noted.uid = e.uid /\ noted.stages = e.stages
          /\ noted.activeIndex = e.activeIndex
          /\ noted.activeBindingPolicyUID = e.activeBindingPolicyUID
      <3>1. binding.workload \in SUBSET Objects
        BY DEF BindingObjects
      <3> QED
        BY <2>2, <3>1 DEF Entries
    <2> HIDE DEF noted
    <2>5. Tracked(n)' = noted /\ \A m \in SBPs : m # n => Tracked(m)' = Tracked(m)
      BY <2>2, <2>3 DEF TableInv, Tracked
    <2>6. op' \in Ops /\ op'.sbp = n /\ op'.pc \in {"return", "attempt"}
      BY <2>2, <2>3, <2>4, AttemptTyped
    <2>7. OwnBinding(n)
      BY <2>1, <2>2, <2>4, <2>5 DEF SameEntry, OwnBinding, Unnoted
    <2>8. ASSUME op'.pc = "attempt" PROVE Stage(Entry, Entry.activeIndex)'.cond /\ ~Unnoted(op.sbp)'
      <3>1. Stage(noted, noted.activeIndex).cond
        BY <2>2, <2>3, <2>4, <2>8, AttemptTyped
      <3>2. Entry' = noted
        BY <2>5, <2>6 DEF Entry, Tracked
      <3>3. noted # None /\ noted.activeBindingPolicyUID # NoUid
        BY <2>1, <2>4, ResolverAssumption
      <3> QED
        BY <2>5, <2>6, <3>1, <3>2, <3>3 DEF Stage, Unnoted
    <2> HIDE DEF n, e
    <2> QED
      BY <2>5, <2>6, <2>7, <2>8 DEF AttemptOK
  <1> QED
    BY <1>1, <1>2

LEMMA StatusAttempts ==
  ASSUME TableInv, SpecsInv, NEW status \in CombinedStatuses, NoteCombinedStatus(status)
  PROVE  /\ op' \in Ops /\ op'.pc \in {"return", "attempt"}
         /\ AttemptOK'
         /\ UNCHANGED stagedBindingPolicies
  <1>1. status.label \in BPKeys
    BY DEF CombinedStatuses
  <1> DEFINE e == EntryOf(status.label)
             n == OwnerOf[status.label]
  <1>2. CASE e = None
    <2>1. status.label[1] \in SBPs /\ op' = Returns(status.label[1]) /\ UNCHANGED stagedBindingPolicies
      BY <1>1, <1>2, EntryOfTyped DEF NoteCombinedStatus
    <2>2. op' \in Ops /\ op'.pc = "return"
      BY <2>1, ReturnsParts DEF OpBecomes
    <2> QED
      BY <2>1, <2>2 DEF AttemptOK
  <1>3. CASE e # None
    <2>1. n \in SBPs /\ e = Tracked(n) /\ e \in Entries
      BY <1>1, <1>3, EntryOfTyped DEF Tracked
    <2>2. op' = Attempt(n, e) /\ UNCHANGED stagedBindingPolicies
      BY <1>3 DEF NoteCombinedStatus
    <2> HIDE DEF e, n
    <2>3. op' \in Ops /\ op'.sbp = n /\ op'.pc \in {"return", "attempt"}
      BY <2>1, <2>2, AttemptTyped
    <2>4. op'.pc = "attempt" => e.bindingSpec # {} /\ Stage(e, e.activeIndex).cond
      BY <2>1, <2>2, AttemptSure
    <2>5. e # None
      BY <2>1, ResolverAssumption
    <2>6. Entry' = e /\ Tracked(n)' = e
      BY <2>1, <2>2, <2>3 DEF Entry, Tracked
    <2>7. op'.pc = "attempt" => ~Unnoted(n)
      BY <2>1, <2>4, <2>5 DEF SpecsInv
    <2> QED
      BY <2>1, <2>2, <2>3, <2>4, <2>6, <2>7 DEF AttemptOK, Stage, Unnoted
  <1> QED
    BY <1>2, <1>3

LEMMA ReconcileOthers ==
  ASSUME TypeInv, SpecsInv, NEW w \in Workers, Reconcile(w)
  PROVE  /\ AttemptOK'
         /\ \A n \in SBPs :
               IF worker[w].item = PolicyRef(n)
               THEN Tracked(n)' # None => Tracked(n)'.bindingSpec = {}
               ELSE /\ Tracked(n)' = Tracked(n) \/ OwnBinding(n)
                    /\ op'.sbp = n => op'.pc \in {"return", "attempt"}
  <1> DEFINE item == worker[w].item
             obj == worker[w].obj
  <1>1. TableInv /\ item \in Items /\ obj \in Found(item)
    BY DEF Reconcile, TypeInv, WorkersTyped, WorkerOK
  <1>2. \A n \in SBPs : item = PolicyRef(n) <=> item[1] = "sbp" /\ item[2] = n
    BY <1>1, PolicyItem
  <1>3. CASE item[1] = "sbp"
    <2>1. item[2] \in SBPs /\ obj \in SBPObjects \cup {None}
      BY <1>1, <1>3, ItemParts DEF Found
    <2> PICK n \in SBPs : item[2] = n
      BY <2>1
    <2>2. op'.sbp = n /\ op'.pc # "attempt"
      BY <1>2, <1>3, <2>1, ReconcileParts
    <2>3. OthersKept(n) /\ (Tracked(n)' # None => Tracked(n)'.bindingSpec = {})
      <3>1. CASE DeleteStagedBindingPolicy(n)
        BY <1>1, <2>1, <3>1, DeletedParts
      <3>2. CASE obj # None /\ NoteStagedBindingPolicy(n, obj)
        <4>1. OthersKept(n)
          BY <1>1, <2>1, <3>2, NotedParts
        <4>2. Tracked(n)'.bindingSpec = {}
          BY <1>1, <2>1, <3>2 DEF NoteStagedBindingPolicy, Tracked, TableInv
        <4> QED
          BY <4>1, <4>2
      <3> QED
        BY <1>3, <3>1, <3>2 DEF Reconcile
    <2> HIDE DEF item
    <2> QED
      BY <1>2, <1>3, <2>1, <2>2, <2>3 DEF AttemptOK, OthersKept, item
  <1>4. CASE item[1] = "bdg"
    <2>1. item[2] \in BPKeys /\ obj \in BindingObjects /\ NoteBinding(item[2], obj)
      BY <1>1, <1>4, ItemParts DEF Found, Reconcile
    <2> HIDE DEF item, obj
    <2> QED
      BY <1>1, <1>2, <1>4, <2>1, BindingAttempts DEF item
  <1>5. CASE item[1] = "cs"
    <2>1. obj \in CombinedStatuses /\ NoteCombinedStatus(obj)
      BY <1>1, <1>5 DEF Found, Reconcile
    <2> HIDE DEF item, obj
    <2> QED
      BY <1>1, <1>2, <1>5, <2>1, StatusAttempts DEF item, Tracked
  <1> QED
    BY <1>1, <1>3, <1>4, <1>5, ItemParts

LEMMA NextSpecs ==
  ASSUME TypeInv, SpecsInv, [Next]_vars
  PROVE  SpecsInv'
  <1>1. WdsTypeOK /\ TableInv
    BY DEF TypeInv
  <1>2. CASE UNCHANGED resolverVars
    BY <1>2 DEF resolverVars, SpecsInv, AttemptOK, Entry, Unnoted, Tracked
  <1>3. CASE op' = None /\ (UNCHANGED stagedBindingPolicies \/ \A n \in SBPs : Tracked(n)' = None)
    BY <1>3 DEF SpecsInv, AttemptOK, Unnoted, Tracked
  <1>4. CASE OpSteps
    <2>1. ASSUME NEW n \in SBPs, Tracked(n)' # None, Unnoted(n)'
          PROVE  Tracked(n)'.bindingSpec = {}
      <3>1. nextUid # NoUid
        BY <1>1 DEF WdsTypeOK, Uids
      <3>2. CASE Tracked(n)' = Tracked(n)
        BY <2>1, <3>2 DEF SpecsInv, Unnoted
      <3>3. CASE SameBinding(n)
        BY <2>1, <3>1, <3>3, ResolverAssumption DEF SpecsInv, Unnoted, SameBinding
      <3> QED
        BY <1>1, <1>4, <3>2, <3>3, OpStepsBindings
    <2> QED
      BY <1>1, <1>4, <2>1, OpStepsAttempt DEF SpecsInv
  <1>5. ASSUME NEW w \in Workers, WorkerStep(w) PROVE SpecsInv'
    <2>1. CASE Reconcile(w)
      <3>1. ASSUME NEW n \in SBPs, Tracked(n)' # None, Unnoted(n)'
            PROVE  Tracked(n)'.bindingSpec = {}
        BY <2>1, <3>1, ReconcileOthers DEF SpecsInv, OwnBinding, SameEntry, Unnoted
      <3> QED
        BY <2>1, <3>1, ReconcileOthers DEF SpecsInv
    <2>2. CASE Finish(w)
      BY <1>3, <2>2 DEF Finish
    <2> QED
      BY <1>2, <1>5, <2>1, <2>2 DEF WorkerStep, Get, ReadLister
  <1>6. CASE Crash \/ Panic
    BY <1>3, <1>6, LoseMemoryParts DEF Crash, Panic
  <1> QED
    BY <1>2, <1>4, <1>5, <1>6
    DEF Next, Environment, Informers, DeliverPolicy, DeliverBinding, DeliverStatus, Resolve,
        Requeue, Restart, vars

-----------------------------------------------------------------------------
(* The copies of a policy that is left alone: its UID and stages do not    *)
(* change, nor does its generation.                                        *)
LEMMA SameVersionTrans ==
  ASSUME NEW x, NEW y, NEW z, SameVersion(x, y), SameVersion(y, z)
  PROVE  SameVersion(x, z)
  BY DEF SameVersion

StillVersion(n) == sbp[n] # None => SameVersion(sbp[n], sbp'[n]) /\ sbp'[n].gen = sbp[n].gen

CopiesOK(n) ==
    /\ sbp[n] # None => Distinct(sbp[n].stages)
    /\ CopyOf(Tracked(n), n)
    /\ CopyOf(sbpCache[n], n)
    /\ sbpCache[n] # None => sbpCache[n].gen = sbp[n].gen

LEMMA CopiesKept ==
  ASSUME CopiesInv, NEW n \in SBPs,
         sbp[n] # None => StillVersion(n),
         sbp[n] = None => sbp'[n] = None \/ Distinct(sbp'[n].stages),
         SameVersion(Tracked(n), Tracked(n)'),
         sbpCache'[n] = sbpCache[n]
  PROVE  CopiesOK(n)'
  <1>1. CopiesOK(n)
    BY DEF CopiesInv, CopiesOK
  <1> QED
    BY <1>1 DEF CopiesOK, CopyOf, SameVersion, StillVersion

LEMMA NextCopies ==
  ASSUME LeftAlone, DistinctNames, TypeInv, ReadsHold, DownInv, CopiesInv, ItemsInv, [Next]_vars
  PROVE  CopiesInv'
  <1>1. WdsTypeOK /\ TableInv /\ Undisturbed /\ NoRelist
    BY LeftAloneIs DEF TypeInv
  <1>3. ASSUME UNCHANGED sbp PROVE \A n \in SBPs : StillVersion(n)
    BY <1>3 DEF SameVersion, StillVersion
  <1>4. ASSUME UNCHANGED <<sbp, stagedBindingPolicies, sbpCache>> PROVE CopiesInv'
    BY <1>4 DEF CopiesInv, CopyOf, Tracked
  <1>5. (\A n \in SBPs : CopiesOK(n)') => CopiesInv'
    BY DEF CopiesInv, CopiesOK
  <1>6. CASE Environment
    <2>1. WdsNext /\ UNCHANGED <<stagedBindingPolicies, sbpCache>>
      BY <1>6 DEF Environment, resolverVars, cacheVars
    <2>2. ASSUME NEW n \in SBPs PROVE CopiesOK(n)'
      <3>1. sbp[n] # None => StillVersion(n)
        BY <1>1, <2>1, UsersKeepPolicies DEF StillVersion, SameVersion
      <3>2. sbp[n] = None => sbp'[n] = None \/ Distinct(sbp'[n].stages)
        BY <1>1, <2>1, UsersOnlyCreate DEF DistinctNames
      <3>3. SameVersion(Tracked(n), Tracked(n)')
        BY <2>1 DEF Tracked, SameVersion
      <3> QED
        BY <2>1, <3>1, <3>2, <3>3, CopiesKept
    <2> QED
      BY <1>5, <2>2
  <1>7. ASSUME NEW m \in SBPs, DeliverPolicy(m) PROVE CopiesInv'
    <2>1. /\ sbp[m] # None /\ sbpCache'[m] = sbp[m]
          /\ \A n \in SBPs : n # m => sbpCache'[n] = sbpCache[n]
          /\ UNCHANGED <<sbp, stagedBindingPolicies>>
      BY <1>1, <1>7, DeliverFirst DEF resolverVars
    <2> QED
      BY <2>1 DEF CopiesInv, CopyOf, SameVersion, Tracked
  <1>8. CASE \/ \E k \in BPKeys : DeliverBinding(k)
             \/ \E o \in Objects, u \in 1..(nextUid - 1) : DeliverStatus(o, u)
             \/ \E item \in delayed : Requeue(item)
             \/ UNCHANGED vars
    BY <1>4, <1>8 DEF DeliverBinding, DeliverStatus, Requeue, vars, wdsVars, resolverVars, cacheVars, queueVars
  <1>9. ASSUME NEW w \in Workers, WorkerStep(w) PROVE CopiesInv'
    <2>1. UNCHANGED <<sbp, sbpCache>>
      BY <1>9 DEF WorkerStep, Get, ReadLister, Reconcile, Finish, wdsVars, cacheVars
    <2>2. CASE (\E item \in dirty : Get(w, item)) \/ ReadLister(w) \/ Finish(w)
      BY <1>4, <2>1, <2>2 DEF Get, ReadLister, Finish, resolverVars
    <2>3. CASE Reconcile(w)
      <3>1. ASSUME NEW n \in SBPs PROVE CopyOf(Tracked(n), n)'
        <4>1. CASE worker[w].item # PolicyRef(n)
          <5>1. (Tracked(n) = None /\ Tracked(n)' = None) \/ SameEntry(n)
            BY <2>3, <4>1, ReconcileParts
          <5>2. SameVersion(Tracked(n), Tracked(n)')
            BY <5>1, ResolverAssumption DEF SameEntry, SameVersion
          <5> QED
            BY <2>1, <5>2 DEF CopiesInv, CopyOf, SameVersion
        <4>2. CASE worker[w].item = PolicyRef(n)
          <5>1. Holds(w, n) /\ worker[w].pc = "read"
            BY <2>3, <4>2 DEF Reconcile, Holds
          <5>2. worker[w].obj = sbp[n]
            BY <5>1 DEF ItemsInv, ItemInv, HolderOK
          <5>3. \/ Tracked(n)' = None
                \/ /\ worker[w].obj \in SBPObjects
                   /\ Tracked(n)'.uid = worker[w].obj.uid
                   /\ Tracked(n)'.stages = worker[w].obj.stages
            BY <2>3, <4>2, ReconcileParts
          <5> QED
            BY <2>1, <5>2, <5>3, WdsAssumption DEF CopyOf, SameVersion
        <4> QED
          BY <4>1, <4>2
      <3> QED
        BY <2>1, <3>1 DEF CopiesInv, CopyOf
    <2> QED
      BY <1>9, <2>2, <2>3 DEF WorkerStep
  <1>10. CASE Resolve
    <2>1. OpSteps /\ UNCHANGED sbpCache
      BY <1>10 DEF Resolve, cacheVars
    <2> PICK p \in SBPs : op.sbp = p
      BY <1>1, <2>1, OpStepsBusy
    <2>2. ASSUME NEW n \in SBPs PROVE CopiesOK(n)'
      <3>1. sbp'[n] = sbp[n] \/ SpecSame(n)
        BY <1>1, <2>1, OpStepsSame
      <3>2. sbp[n] # None => StillVersion(n)
        BY <3>1, WdsAssumption DEF SpecSame, StillVersion, SameVersion
      <3>3. sbp[n] = None => sbp'[n] = None
        BY <3>1, WdsAssumption DEF SpecSame
      <3>4. SameVersion(Tracked(n), Tracked(n)')
        BY <1>1, <2>1, OpStepsSame, ResolverAssumption DEF TracksSame, OthersKept, SameVersion
      <3> QED
        BY <2>1, <3>2, <3>3, <3>4, CopiesKept
    <2> QED
      BY <1>5, <2>2
  <1>11. CASE Crash \/ Panic
    <2>1. UNCHANGED sbp /\ LoseMemory
      BY <1>11 DEF Crash, Panic, wdsVars
    <2> QED
      BY <2>1, LoseMemoryParts DEF CopiesInv, CopyOf
  <1>12. CASE Restart
    <2>1. sbpCache' = sbp /\ UNCHANGED <<sbp, stagedBindingPolicies>>
      BY <1>12 DEF Restart, wdsVars, resolverVars
    <2> QED
      BY <2>1 DEF CopiesInv, CopyOf, SameVersion, Tracked
  <1> QED
    BY <1>6, <1>7, <1>8, <1>9, <1>10, <1>11, <1>12 DEF Next, Informers

-----------------------------------------------------------------------------
(* The item of a policy.  A step that is about other items and other       *)
(* policies leaves what is known of it as it was.                          *)
SameItem(n) ==
    /\ PolicyRef(n) \in dirty' <=> PolicyRef(n) \in dirty
    /\ PolicyRef(n) \in delayed' <=> PolicyRef(n) \in delayed
    /\ \A w \in Workers : worker'[w] = worker[w] \/ (~Holds(w, n) /\ ~Holds(w, n)')

SameCall(n) ==
    \/ UNCHANGED op
    \/ /\ \A w \in Workers : Holds(w, n) => worker[w].pc # "resolving"
       /\ OpOn(n)' => op'.pc = "return" \/ (op'.pc = "attempt" /\ ~Unnoted(n)')

SamePolicy(n) ==
    /\ Tracked(n)' = None <=> Tracked(n) = None
    /\ Unnoted(n)' <=> Unnoted(n)
    /\ sbpCache'[n] = sbpCache[n]
    /\ sbpCache[n] = None \/ sbp'[n] = sbp[n]

LEMMA SameHolders ==
  ASSUME NEW n \in SBPs, SameItem(n)
  PROVE  /\ \A w \in Workers : Holds(w, n)' <=> Holds(w, n)
         /\ \A w \in Workers : Holds(w, n) => worker'[w] = worker[w]
         /\ OnePlace(n) => OnePlace(n)'
         /\ Pending(n)' <=> Pending(n)
         /\ Noting(n)' <=> Noting(n)
  <1>1. \A w \in Workers : Holds(w, n)' <=> Holds(w, n)
    BY DEF SameItem, Holds
  <1>2. \A w \in Workers : Holds(w, n) => worker'[w] = worker[w]
    BY DEF SameItem
  <1>3. PolicyRef(n)' = PolicyRef(n)
    BY DEF PolicyRef
  <1> QED
    BY <1>1, <1>2, <1>3 DEF SameItem, OnePlace, Pending, Noting

LEMMA ItemKept ==
  ASSUME NEW n \in SBPs, ItemInv(n), SameItem(n), SameCall(n), SamePolicy(n)
  PROVE  ItemInv(n)'
  <1>1. /\ \A w \in Workers : Holds(w, n)' <=> Holds(w, n)
        /\ \A w \in Workers : Holds(w, n) => worker'[w] = worker[w]
        /\ OnePlace(n)'
        /\ Pending(n)' <=> Pending(n)
        /\ Noting(n)' <=> Noting(n)
    BY SameHolders DEF ItemInv
  <1>2. \A w \in Workers : HolderOK(w, n)'
    <2> SUFFICES ASSUME NEW w \in Workers, Holds(w, n) PROVE HolderOK(w, n)'
      BY <1>1 DEF HolderOK
    <2>1. worker'[w] = worker[w] /\ HolderOK(w, n) /\ sbpCache[n] # None
      BY <1>1 DEF ItemInv, Noting
    <2> QED
      BY <2>1 DEF SamePolicy, SameCall, HolderOK, OpOn
  <1>3. /\ NotesFirst(n)' => Unnoted(n)' /\ \E w \in Workers : Holds(w, n)' /\ worker'[w].pc = "resolving"
        /\ OpOn(n)' /\ op'.pc # "return" /\ Unnoted(n)' => NotesFirst(n)'
    BY <1>1 DEF SamePolicy, SameCall, NotesFirst, OpOn, ItemInv
  <1>4. /\ sbpCache'[n] = None => ~Noting(n)' /\ Tracked(n)' = None
        /\ Pending(n)' => Unnoted(n)'
        /\ Unnoted(n)' => sbpCache'[n] \in {None, sbp'[n]}
        /\ Tracked(n)' # None /\ Unnoted(n)' => Noting(n)'
    BY <1>1 DEF SamePolicy, ItemInv
  <1> QED
    BY <1>1, <1>2, <1>3, <1>4 DEF ItemInv

(* Steps that touch neither an entry of the table nor a policy.            *)
LEMMA SamePolicyIf ==
  ASSUME NEW n \in SBPs, UNCHANGED <<sbp, stagedBindingPolicies>>, sbpCache'[n] = sbpCache[n]
  PROVE  SamePolicy(n)
  BY DEF SamePolicy, Tracked, Unnoted

LEMMA DeliverItems ==
  ASSUME LeftAlone, TypeInv, ReadsHold, CopiesInv, ItemsInv, NEW m \in SBPs, DeliverPolicy(m),
         NEW n \in SBPs
  PROVE  ItemInv(n)'
  <1>1. /\ sbp[m] # None /\ sbpCache'[m] = sbp[m]
        /\ n # m => sbpCache'[n] = sbpCache[n]
        /\ dirty' = IF sbpCache[m] = None THEN dirty \cup {PolicyRef(m)} ELSE dirty
        /\ UNCHANGED <<sbp, stagedBindingPolicies, op, delayed, worker>>
    BY LeftAloneIs, DeliverFirst DEF resolverVars
  <1>2. ItemInv(n)
    BY DEF ItemsInv
  <1>3. CASE n # m
    <2>1. SameItem(n) /\ SameCall(n) /\ SamePolicy(n)
      BY <1>1, <1>3, SamePolicyIf DEF SameItem, SameCall, PolicyRef
    <2> QED
      BY <1>2, <2>1, ItemKept
  <1>4. CASE n = m /\ sbpCache[m] # None
    <2>1. SameItem(n)
      BY <1>1, <1>4 DEF SameItem
    <2>2. /\ \A w \in Workers : Holds(w, n)' <=> Holds(w, n)
          /\ OnePlace(n)' /\ (Pending(n)' <=> Pending(n)) /\ (Noting(n)' <=> Noting(n))
      BY <1>2, <2>1, SameHolders DEF ItemInv
    <2>3. Unnoted(n)' <=> Unnoted(n)
      BY <1>1 DEF Unnoted, Tracked
    <2>4. \A w \in Workers : HolderOK(w, n)'
      BY <1>1, <1>2, <2>2, <2>3 DEF ItemInv, HolderOK, OpOn
    <2> QED
      BY <1>1, <1>2, <1>4, <2>2, <2>3, <2>4 DEF ItemInv, NotesFirst, OpOn, Tracked
  <1>5. CASE n = m /\ sbpCache[m] = None
    <2>1. ~Noting(n) /\ Tracked(n) = None
      BY <1>2, <1>5 DEF ItemInv
    <2>2. \A w \in Workers : ~Holds(w, n)'
      BY <1>1, <2>1 DEF Noting, Holds
    <2>3. ~NotesFirst(n)' /\ ~(OpOn(n)' /\ op'.pc # "return" /\ Unnoted(n)')
      BY <1>1, <1>2, <2>1 DEF ItemInv, NotesFirst, OpOn, Noting, Unnoted, Tracked
    <2>4. OnePlace(n)'
      BY <1>1, <2>1, <2>2 DEF OnePlace, Noting
    <2> QED
      BY <1>1, <1>5, <2>1, <2>2, <2>3, <2>4 DEF ItemInv, HolderOK, Unnoted, Tracked
  <1> QED
    BY <1>3, <1>4, <1>5

LEMMA GetItems ==
  ASSUME TypeInv, ItemsInv, NEW w \in Workers, NEW item \in dirty, Get(w, item), NEW n \in SBPs
  PROVE  ItemInv(n)'
  <1>1. item # None
    BY ControllerAssumption DEF TypeInv, QueueTyped
  <1>2. /\ worker[w].pc = "idle"
        /\ worker'[w].pc = "dequeued" /\ worker'[w].item = item
        /\ \A v \in Workers : worker[v].item # item
        /\ \A v \in Workers : v # w => worker'[v] = worker[v]
        /\ dirty' = dirty \ {item}
        /\ UNCHANGED <<sbp, sbpCache, stagedBindingPolicies, op, delayed>>
    BY <1>1, GetParts DEF TypeInv, wdsVars, resolverVars, cacheVars
  <1>3. ItemInv(n) /\ SamePolicy(n)
    BY <1>2, SamePolicyIf DEF ItemsInv
  <1>4. CASE item # PolicyRef(n)
    <2>1. SameItem(n) /\ SameCall(n)
      BY <1>2, <1>4 DEF SameItem, SameCall, Holds, PolicyRef
    <2> QED
      BY <1>3, <2>1, ItemKept
  <1>5. CASE item = PolicyRef(n)
    <2>1. \A v \in Workers : ~Holds(v, n) /\ (Holds(v, n)' <=> v = w)
      BY <1>2, <1>5 DEF Holds, PolicyRef
    <2>2. Pending(n) /\ Noting(n) /\ PolicyRef(n) \notin delayed
      BY <1>3, <1>5 DEF Pending, Noting, ItemInv, OnePlace
    <2>3. OnePlace(n)' /\ Pending(n)' /\ Noting(n)'
      BY <1>2, <1>5, <2>1, <2>2 DEF OnePlace, Pending, Noting, PolicyRef
    <2>4. \A v \in Workers : HolderOK(v, n)'
      BY <1>2, <2>1 DEF HolderOK
    <2>5. ~NotesFirst(n)' /\ ~(OpOn(n)' /\ op'.pc # "return" /\ Unnoted(n)')
      BY <1>2, <1>3, <2>1 DEF ItemInv, NotesFirst, OpOn, Unnoted, Tracked
    <2> QED
      BY <1>3, <2>2, <2>3, <2>4, <2>5 DEF ItemInv, SamePolicy
  <1> QED
    BY <1>4, <1>5

(* What is read is the policy as it is: nobody writes its status before.   *)
LEMMA ReadItems ==
  ASSUME TypeInv, ItemsInv, NEW w \in Workers, ReadLister(w), NEW n \in SBPs
  PROVE  ItemInv(n)'
  <1>1. /\ worker[w].pc = "dequeued" /\ worker[w].item \in Items
        /\ \A v \in Workers : v # w => worker'[v] = worker[v]
        /\ worker[w].item[1] # "sbp" =>
              worker'[w].pc = "idle" \/ (worker'[w].pc = "read" /\ worker'[w].item = worker[w].item)
        /\ worker[w].item[1] = "sbp" =>
              /\ worker'[w].pc = "read" /\ worker'[w].item = worker[w].item
              /\ worker'[w].obj = sbpCache[worker[w].item[2]]
        /\ UNCHANGED <<sbp, sbpCache, stagedBindingPolicies, op, dirty, delayed>>
    BY ReadListerParts DEF TypeInv, wdsVars, resolverVars, cacheVars
  <1>2. ItemInv(n) /\ SamePolicy(n)
    BY <1>1, SamePolicyIf DEF ItemsInv
  <1>3. CASE worker[w].item # PolicyRef(n)
    <2>1. SameItem(n) /\ SameCall(n)
      BY <1>1, <1>3 DEF SameItem, SameCall, Holds, PolicyRef
    <2> QED
      BY <1>2, <2>1, ItemKept
  <1>4. CASE worker[w].item = PolicyRef(n)
    <2>1. /\ Holds(w, n) /\ Holds(w, n)'
          /\ worker'[w].pc = "read" /\ worker'[w].obj = sbpCache[n]
      BY <1>1, <1>4 DEF Holds, PolicyRef
    <2>2. Pending(n) /\ Noting(n)
      BY <1>1, <2>1 DEF Pending, Noting
    <2>3. sbpCache[n] = sbp[n] /\ Unnoted(n)
      BY <1>2, <2>2 DEF ItemInv
    <2>4. \A v \in Workers : Holds(v, n) <=> Holds(v, n)'
      BY <1>1, <2>1 DEF Holds
    <2>5. OnePlace(n)' /\ Pending(n)' /\ Noting(n)'
      BY <1>1, <1>2, <2>1, <2>4 DEF ItemInv, OnePlace, Pending, Noting, PolicyRef
    <2>6. \A v \in Workers : Holds(v, n) => v = w
      BY <1>2, <2>1 DEF ItemInv, OnePlace
    <2>7. \A v \in Workers : HolderOK(v, n)'
      BY <1>1, <2>1, <2>3, <2>4, <2>6 DEF HolderOK
    <2>8. ~NotesFirst(n)' /\ ~(OpOn(n)' /\ op'.pc # "return" /\ Unnoted(n)')
      BY <1>1, <1>2, <2>6 DEF ItemInv, NotesFirst, OpOn, Unnoted, Tracked
    <2> QED
      BY <1>2, <2>2, <2>3, <2>5, <2>7, <2>8 DEF ItemInv, SamePolicy
  <1> QED
    BY <1>3, <1>4

LEMMA ReconcileItems ==
  ASSUME TypeInv, ReadsHold, NotedInv, SpecsInv, ItemsInv, NEW w \in Workers, Reconcile(w),
         NEW n \in SBPs
  PROVE  ItemInv(n)'
  <1>1. /\ worker[w].pc = "read"
        /\ worker'[w].pc = "resolving" /\ worker'[w].item = worker[w].item
        /\ \A v \in Workers : v # w => worker'[v] = worker[v]
        /\ UNCHANGED <<sbp, sbpCache, dirty, delayed>>
    BY ReconcileMoves DEF TypeInv, wdsVars, cacheVars
  <1>2. op = None /\ ItemInv(n)
    BY ReconcileParts DEF ItemsInv
  <1>3. \A v \in Workers : worker[v].pc # "resolving"
    BY <1>2 DEF NotedInv, MutexHeld
  <1>4. CASE worker[w].item # PolicyRef(n)
    <2>1. /\ AttemptOK'
          /\ Tracked(n)' = Tracked(n) \/ OwnBinding(n)
          /\ op'.sbp = n => op'.pc \in {"return", "attempt"}
      BY <1>4, ReconcileOthers
    <2>2. SameItem(n)
      BY <1>1, <1>4 DEF SameItem, Holds, PolicyRef
    <2>3. (Tracked(n)' = None <=> Tracked(n) = None) /\ (Unnoted(n)' <=> Unnoted(n))
      BY <2>1, ResolverAssumption DEF OwnBinding, SameEntry, Unnoted
    <2>4. SamePolicy(n)
      BY <1>1, <2>3 DEF SamePolicy
    <2>5. OpOn(n)' /\ op'.pc = "attempt" => ~Unnoted(n)'
      BY <2>1 DEF AttemptOK, OpOn, Unnoted, Tracked
    <2>6. SameCall(n)
      BY <1>3, <2>1, <2>5 DEF SameCall, OpOn
    <2> QED
      BY <1>2, <2>2, <2>4, <2>6, ItemKept
  <1>5. CASE worker[w].item = PolicyRef(n)
    <2>1. Holds(w, n) /\ Pending(n) /\ Noting(n)
      BY <1>1, <1>5 DEF Holds, Pending, Noting
    <2>2. worker[w].obj = sbp[n] /\ sbpCache[n] = sbp[n] /\ sbp[n] # None
      BY <1>1, <1>2, <2>1 DEF ItemInv, HolderOK, ReadsHold
    <2>3. /\ op'.sbp = n /\ ~op'.staging /\ op'.pc \in {"delete", "create"}
          /\ Tracked(n)' # None /\ Unnoted(n)'
      <3>1. op' \in Ops /\ ~op'.staging /\ op'.sbp = n
        BY <1>5, ReconcileParts
      <3>2. Tracked(n)' \in Entries /\ Tracked(n)'.activeBindingPolicyUID = NoUid /\ op'.pc \in {"delete", "create"}
        BY <1>5, <2>2, ReconcileParts
      <3> QED
        BY <3>1, <3>2, ResolverAssumption DEF Unnoted
    <2>4. op' # None
      BY ReconcileParts, ResolverAssumption
    <2>5. \A v \in Workers : (Holds(v, n) <=> Holds(v, n)') /\ (Holds(v, n) => v = w)
      BY <1>1, <1>2, <2>1 DEF Holds, ItemInv, OnePlace
    <2>6. OnePlace(n)' /\ Noting(n)'
      BY <1>1, <1>2, <2>1, <2>5 DEF ItemInv, OnePlace, Noting, PolicyRef
    <2>7. OpOn(n)' /\ NotesFirst(n)' /\ Holds(w, n)'
      BY <2>1, <2>3, <2>4, <2>5 DEF OpOn, NotesFirst
    <2>8. \A v \in Workers : HolderOK(v, n)'
      BY <1>1, <2>3, <2>5, <2>7 DEF HolderOK
    <2> QED
      BY <1>1, <2>2, <2>3, <2>6, <2>7, <2>8 DEF ItemInv
  <1> QED
    BY <1>4, <1>5

LEMMA FinishItems ==
  ASSUME TypeInv, NotedInv, ItemsInv, NEW w \in Workers, Finish(w), NEW n \in SBPs
  PROVE  ItemInv(n)'
  <1>1. /\ worker[w].pc = "resolving" /\ worker'[w].pc = "idle"
        /\ \A v \in Workers : v # w => worker'[v] = worker[v]
        /\ op # None /\ op.pc = "return" /\ op' = None
        /\ delayed' = IF op.err THEN delayed \cup {worker[w].item} ELSE delayed
        /\ UNCHANGED <<sbp, sbpCache, stagedBindingPolicies, dirty>>
    BY FinishMoves DEF TypeInv, wdsVars, cacheVars
  <1>2. ItemInv(n) /\ SamePolicy(n)
    BY <1>1, SamePolicyIf DEF ItemsInv
  <1>3. CASE worker[w].item # PolicyRef(n)
    <2>1. SameItem(n)
      BY <1>1, <1>3 DEF SameItem, Holds, PolicyRef
    <2>2. SameCall(n)
      BY <1>1, <1>3 DEF SameCall, OpOn, Holds, NotedInv, MutexHeld
    <2> QED
      BY <1>2, <2>1, <2>2, ItemKept
  <1>4. CASE worker[w].item = PolicyRef(n)
    <2>1. Holds(w, n) /\ Noting(n)
      BY <1>1, <1>4 DEF Holds, Noting
    <2>2. op.err <=> Unnoted(n)
      BY <1>1, <1>2, <2>1 DEF ItemInv, HolderOK
    <2>3. \A v \in Workers : Holds(v, n) => v = w
      BY <1>2, <2>1 DEF ItemInv, OnePlace
    <2>4. \A v \in Workers : ~Holds(v, n)'
      BY <1>1, <2>3 DEF Holds
    <2>5. PolicyRef(n) \notin dirty \cup delayed
      BY <1>2, <2>1 DEF ItemInv, OnePlace
    <2>6. OnePlace(n)'
      BY <1>1, <2>4, <2>5 DEF OnePlace, PolicyRef
    <2>7. (Pending(n)' <=> op.err) /\ (Noting(n)' <=> op.err)
      BY <1>1, <1>4, <2>4, <2>5 DEF Pending, Noting, PolicyRef
    <2> QED
      BY <1>1, <1>2, <2>1, <2>2, <2>4, <2>6, <2>7 DEF ItemInv, SamePolicy, HolderOK, NotesFirst, OpOn
  <1> QED
    BY <1>3, <1>4

(* A policy that no Create has succeeded for in this life of the process:  *)
(* the operation was called for it, and is at its first stage.             *)
LEMMA FirstCall ==
  ASSUME NEW n \in SBPs, ItemInv(n), OpOn(n), op.pc # "return", Unnoted(n)
  PROVE  /\ ~op.staging /\ op.pc \in {"delete", "create"}
         /\ \E w \in Workers : Holds(w, n) /\ worker[w].pc = "resolving"
         /\ \A w \in Workers : Holds(w, n) => worker[w].pc = "resolving"
         /\ PolicyRef(n) \notin dirty \cup delayed
  <1>1. NotesFirst(n)
    BY DEF ItemInv
  <1>2. PICK w \in Workers : Holds(w, n) /\ worker[w].pc = "resolving"
    BY <1>1 DEF ItemInv
  <1> QED
    BY <1>1, <1>2 DEF NotesFirst, ItemInv, OnePlace

LEMMA LaterItems ==
  ASSUME NEW n \in SBPs, ItemInv(n), Tracked(n) # None, ~Unnoted(n), Tracked(n)' # None, ~Unnoted(n)',
         UNCHANGED <<dirty, delayed, worker, sbpCache>>,
         op' # None, op'.sbp = n,
         op'.pc = "return" => ~op'.err,
         op'.staging \/ op'.pc \notin {"delete", "create"}
  PROVE  ItemInv(n)'
  <1>1. SameItem(n)
    BY DEF SameItem
  <1>2. /\ \A w \in Workers : Holds(w, n)' <=> Holds(w, n)
        /\ OnePlace(n)' /\ (Pending(n)' <=> Pending(n))
    BY <1>1, SameHolders DEF ItemInv
  <1>3. ~Pending(n) /\ sbpCache[n] # None
    BY DEF ItemInv
  <1>4. \A w \in Workers : HolderOK(w, n)'
    BY <1>2, <1>3 DEF HolderOK, Pending, OpOn
  <1> QED
    BY <1>2, <1>3, <1>4 DEF ItemInv, NotesFirst

-----------------------------------------------------------------------------
(* The steps of an operation when no API call fails and its policy is left *)
(* alone: only a Create can be refused.                                    *)
ActiveName(p) == Stage(Tracked(p), Tracked(p).activeIndex).name

ActiveKey(p) == Key(p, Tracked(p), Tracked(p).activeIndex)

PreviousKey(p) == Key(p, Tracked(p), Tracked(p).activeIndex - 1)

Waits(p) ==
    /\ op.pc = "attempt" /\ ~op.staging
    /\ UNCHANGED <<sbp, bp, nextUid>>
    /\ TableKept
    /\ OpAttempts(p)

LeavesStage(p) ==
    /\ op.pc = "attempt" /\ ~op.staging
    /\ UNCHANGED <<sbp, bp, nextUid>>
    /\ EntryBecomes(p, Tracked(p).activeIndex + 1, Tracked(p).activeBindingPolicyUID)
    /\ OpBecomes(p, "delete", TRUE)

Deletes(p) ==
    /\ op.pc = "delete"
    /\ UNCHANGED <<sbp, nextUid>>
    /\ bp' = [bp EXCEPT ![PreviousKey(p)] = None]
    /\ TableKept
    /\ OpBecomes(p, "create", op.staging)

Deploys(p) ==
    /\ op.pc = "create"
    /\ Tracked(p).activeIndex < Len(Tracked(p).stages)
    /\ UNCHANGED sbp
    /\ bp[ActiveKey(p)] = None
    /\ nextUid <= MaxUid /\ nextUid' = nextUid + 1
    /\ bp' = [bp EXCEPT ![ActiveKey(p)] = [uid |-> nextUid, owner |-> Tracked(p).uid]]
    /\ EntryBecomes(p, Tracked(p).activeIndex, nextUid)
    /\ OpBecomes(p, "get", op.staging)

Refused(p) ==
    /\ op.pc = "create"
    /\ Tracked(p).activeIndex < Len(Tracked(p).stages)
    /\ bp[ActiveKey(p)] # None \/ nextUid > MaxUid
    /\ UNCHANGED <<sbp, bp, nextUid>>
    /\ EntryBecomes(p, IF op.staging THEN Tracked(p).activeIndex - 1 ELSE Tracked(p).activeIndex,
                    Tracked(p).activeBindingPolicyUID)
    /\ OpBecomes(p, "return", FALSE)
    /\ op'.err <=> ~op.staging

ReadsPolicy(p) ==
    /\ op.pc = "get"
    /\ UNCHANGED <<sbp, bp, nextUid>>
    /\ TableKept
    /\ OpBecomes(p, "update", op.staging)
    /\ op'.got = sbp[p]

Announces(p) ==
    /\ op.pc = "update"
    /\ UNCHANGED <<bp, nextUid>>
    /\ StatusBecomes(p, ActiveName(p))
    /\ TableKept
    /\ IF op.staging THEN OpBecomes(p, "return", FALSE) /\ ~op'.err ELSE OpAttempts(p)

LEMMA SureSteps ==
  ASSUME EndIsSure, WdsTypeOK, TableInv, OpSteps, NEW p \in SBPs, op.sbp = p
  PROVE  \/ Waits(p) \/ LeavesStage(p) \/ Deletes(p) \/ Deploys(p) \/ Refused(p)
         \/ ReadsPolicy(p) \/ Announces(p)
  <1>1. Entry = Tracked(p) /\ ~Event("fault") /\ op # None /\ op.pc # "return"
    BY OpStepsBusy DEF Entry, Tracked, EndIsSure, Undisturbed, Event
  <1>2. ASSUME Fail
        PROVE  /\ EntryBecomes(p, IF op.staging THEN Tracked(p).activeIndex - 1 ELSE Tracked(p).activeIndex,
                               Tracked(p).activeBindingPolicyUID)
               /\ OpBecomes(p, "return", FALSE)
               /\ op'.err <=> ~op.staging
    BY <1>1, <1>2, FailParts
  <1>3. ASSUME NEW o \in Objects, CheckObject(o) PROVE Waits(p) \/ LeavesStage(p)
    <2>1. UNCHANGED <<sbp, bp, nextUid>>
      BY <1>3, CheckObjectParts DEF wdsVars
    <2> QED
      BY <1>1, <1>3, <2>1, CheckObjectParts DEF Waits, LeavesStage, OpAttempts, OpBecomes
  <1>4. CASE DeletePrevious
    BY <1>1, <1>4, DeletePreviousParts DEF Deletes, PreviousKey
  <1>5. CASE CreateActive
    BY <1>1, <1>2, <1>5, CreateActiveParts DEF Deploys, Refused, ActiveKey, FreshUid
  <1>6. CASE GetPolicy
    BY <1>1, <1>6, GetPolicyParts DEF ReadsPolicy, EndIsSure
  <1>7. CASE UpdateStatus
    <2>1. sbp[p] = op.got
      BY <1>1, <1>7, UpdateStatusParts DEF EndIsSure
    <2> QED
      BY <1>1, <1>7, <2>1, UpdateStatusParts DEF Announces, ActiveName
  <1> QED
    BY <1>3, <1>4, <1>5, <1>6, <1>7 DEF OpSteps

LEMMA ResolveItems ==
  ASSUME LeftAlone, TypeInv, ReadsHold, SpecsInv, ItemsInv, Resolve, NEW n \in SBPs
  PROVE  ItemInv(n)'
  <1>1. /\ WdsTypeOK /\ TableInv /\ OpSteps /\ EndIsSure
        /\ UNCHANGED <<sbpCache, dirty, delayed, worker>>
    BY LeftAloneIs, ReadsMakeSure DEF TypeInv, Resolve, cacheVars, queueVars
  <1> PICK p \in SBPs : op.sbp = p
    BY <1>1, OpStepsBusy
  <1>2. /\ op # None /\ op.pc # "return" /\ op \in Ops
        /\ op' # None /\ op'.sbp = p /\ OthersKept(p)
        /\ \A m \in SBPs : m # p => sbp'[m] = sbp[m]
    BY <1>1, OpStepsBusy, OpStepsSame, ResolverAssumption DEF TableInv
  <1>3. ItemInv(n) /\ SameItem(n)
    BY <1>1 DEF ItemsInv, SameItem
  <1>4. CASE n # p
    <2>1. SamePolicy(n)
      BY <1>1, <1>2, <1>4 DEF SamePolicy, OthersKept, Unnoted
    <2>2. SameCall(n)
      BY <1>2, <1>3, <1>4 DEF SameCall, OpOn, ItemInv, HolderOK
    <2> QED
      BY <1>3, <2>1, <2>2, ItemKept
  <1>5. CASE n = p
    <2>1. /\ Tracked(n) \in Entries /\ Tracked(n) # None
          /\ OpOn(n) /\ op.staging \in BOOLEAN
      BY <1>1, <1>2, <1>5, InProgressTyped, ResolverAssumption DEF Entry, Tracked, OpOn
    <2>2. Tracked(n)' # None
      BY <1>1, <1>5, <2>1, OpStepsSame, ResolverAssumption DEF TracksSame
    <2>3. Unnoted(n) => /\ ~op.staging /\ op.pc \in {"delete", "create"}
                        /\ \E w \in Workers : Holds(w, n) /\ worker[w].pc = "resolving"
                        /\ \A w \in Workers : Holds(w, n) => worker[w].pc = "resolving"
                        /\ PolicyRef(n) \notin dirty \cup delayed
      BY <1>2, <1>3, <2>1, FirstCall
    <2>4. /\ \A w \in Workers : Holds(w, n)' <=> Holds(w, n)
          /\ OnePlace(n)' /\ (Pending(n)' <=> Pending(n)) /\ (Noting(n)' <=> Noting(n))
      BY <1>3, SameHolders DEF ItemInv
    <2>5. ASSUME TableKept PROVE Tracked(n)' = Tracked(n) /\ (Unnoted(n)' <=> Unnoted(n))
      BY <2>5 DEF TableKept, Tracked, Unnoted
    <2>6. CASE Waits(p) \/ LeavesStage(p) \/ ReadsPolicy(p) \/ Announces(p)
      <3>1. ~Unnoted(n) /\ ~Unnoted(n)'
        BY <1>5, <2>1, <2>2, <2>3, <2>5, <2>6
        DEF Waits, LeavesStage, ReadsPolicy, Announces, EntryBecomes, Unnoted
      <3>2. (op'.pc = "return" => ~op'.err) /\ (op'.staging \/ op'.pc \notin {"delete", "create"})
        BY <2>6 DEF Waits, LeavesStage, ReadsPolicy, Announces, OpAttempts, OpBecomes
      <3> QED
        BY <1>1, <1>2, <1>3, <1>5, <2>1, <2>2, <3>1, <3>2, LaterItems
    <2>7. CASE Deletes(p)
      <3>1. UNCHANGED sbp /\ op'.pc = "create" /\ op'.staging = op.staging /\ op.pc = "delete"
        BY <2>7 DEF Deletes, OpBecomes
      <3>2. Tracked(n)' = Tracked(n) /\ (Unnoted(n)' <=> Unnoted(n))
        BY <2>5, <2>7 DEF Deletes
      <3>3. \A w \in Workers : HolderOK(w, n)'
        BY <1>1, <1>2, <1>3, <1>5, <2>4, <3>1 DEF ItemInv, HolderOK, OpOn
      <3>4. NotesFirst(n)' <=> NotesFirst(n)
        BY <1>2, <1>5, <2>1, <3>1 DEF NotesFirst, OpOn
      <3>5. OpOn(n)' /\ op'.pc # "return" /\ Unnoted(n)' => NotesFirst(n)'
        BY <1>2, <1>3, <2>1, <3>2, <3>4 DEF ItemInv
      <3>6. NotesFirst(n)' => Unnoted(n)' /\ \E w \in Workers : Holds(w, n)' /\ worker'[w].pc = "resolving"
        BY <1>1, <1>3, <2>4, <3>2, <3>4 DEF ItemInv
      <3> QED
        BY <1>1, <1>3, <2>4, <3>1, <3>2, <3>3, <3>5, <3>6 DEF ItemInv
    <2>8. CASE Deploys(p)
      <3>1. ~Unnoted(n)' /\ UNCHANGED sbp /\ op'.pc = "get"
        <4>1. nextUid # NoUid
          BY <1>1 DEF WdsTypeOK, Uids
        <4> QED
          BY <1>5, <2>2, <2>8, <4>1 DEF Deploys, EntryBecomes, OpBecomes, Unnoted
      <3>2. ~Pending(n) /\ sbpCache[n] # None
        <4>1. sbpCache[n] # None
          BY <1>3, <2>1 DEF ItemInv
        <4> QED
          BY <1>3, <2>3, <4>1 DEF ItemInv, Pending
      <3>3. \A w \in Workers : HolderOK(w, n)'
        BY <1>1, <1>2, <1>5, <2>4, <3>1, <3>2 DEF HolderOK, Pending, OpOn
      <3> QED
        BY <1>1, <2>2, <2>4, <3>1, <3>2, <3>3 DEF ItemInv, NotesFirst
    <2>9. CASE Refused(p)
      <3>1. /\ UNCHANGED sbp /\ op'.pc = "return" /\ (op'.err <=> ~op.staging) /\ op.pc = "create"
            /\ Unnoted(n)' <=> Unnoted(n)
        BY <1>5, <2>1, <2>2, <2>9 DEF Refused, EntryBecomes, OpBecomes, Unnoted
      <3>2. ~op.staging <=> Unnoted(n)
        BY <1>3, <2>1, <2>3, <3>1 DEF ItemInv, NotesFirst
      <3>3. \A w \in Workers : HolderOK(w, n)'
        BY <1>1, <1>2, <1>3, <1>5, <2>4, <3>1, <3>2 DEF ItemInv, HolderOK, OpOn
      <3> QED
        BY <1>1, <1>3, <2>1, <2>2, <2>4, <3>1, <3>3 DEF ItemInv, NotesFirst
    <2> QED
      BY <1>1, <2>6, <2>7, <2>8, <2>9, SureSteps
  <1> QED
    BY <1>4, <1>5

LEMMA NextItems ==
  ASSUME LeftAlone, TypeInv, ReadsHold, DownInv, NotedInv, CopiesInv, SpecsInv, ItemsInv, [Next]_vars
  PROVE  ItemsInv'
  <1> SUFFICES ASSUME NEW n \in SBPs PROVE ItemInv(n)'
    BY DEF ItemsInv
  <1>1. ItemInv(n) /\ WdsTypeOK /\ Undisturbed
    BY LeftAloneIs DEF ItemsInv, TypeInv
  <1>2. CASE Environment
    <2>1. WdsNext /\ UNCHANGED <<stagedBindingPolicies, op, sbpCache, dirty, delayed, worker>>
      BY <1>2 DEF Environment, resolverVars, cacheVars, queueVars
    <2>2. sbpCache[n] = None \/ sbp'[n] = sbp[n]
      BY <1>1, <2>1, UsersKeepPolicies DEF ReadsHold
    <2>3. SameItem(n) /\ SameCall(n) /\ SamePolicy(n)
      BY <2>1, <2>2 DEF SameItem, SameCall, SamePolicy, Tracked, Unnoted
    <2> QED
      BY <1>1, <2>3, ItemKept
  <1>3. ASSUME NEW m \in SBPs, DeliverPolicy(m) PROVE ItemInv(n)'
    BY <1>3, DeliverItems
  <1>4. ASSUME UNCHANGED <<sbp, sbpCache, stagedBindingPolicies, op, delayed, worker>>,
               PolicyRef(n) \in dirty' <=> PolicyRef(n) \in dirty
        PROVE  ItemInv(n)'
    <2>1. SameItem(n) /\ SameCall(n) /\ SamePolicy(n)
      BY <1>4, SamePolicyIf DEF SameItem, SameCall
    <2> QED
      BY <1>1, <2>1, ItemKept
  <1>5. ASSUME NEW k \in BPKeys, DeliverBinding(k) PROVE ItemInv(n)'
    <2>1. dirty' = dirty \/ dirty' = dirty \cup {BindingRef(k)}
      BY <1>5 DEF DeliverBinding
    <2>2. PolicyRef(n) \in dirty' <=> PolicyRef(n) \in dirty
      BY <2>1 DEF PolicyRef, BindingRef
    <2> QED
      BY <1>4, <1>5, <2>2 DEF DeliverBinding, resolverVars
  <1>6. ASSUME NEW o \in Objects, NEW u \in 1..(nextUid - 1), DeliverStatus(o, u) PROVE ItemInv(n)'
    <2>1. PolicyRef(n) \in dirty' <=> PolicyRef(n) \in dirty
      BY <1>6 DEF DeliverStatus, PolicyRef, StatusRef
    <2> QED
      BY <1>4, <1>6, <2>1 DEF DeliverStatus, wdsVars, resolverVars
  <1>7. ASSUME NEW w \in Workers, WorkerStep(w) PROVE ItemInv(n)'
    BY <1>7, GetItems, ReadItems, ReconcileItems, FinishItems DEF WorkerStep
  <1>8. CASE Resolve
    BY <1>8, ResolveItems
  <1>9. ASSUME NEW item \in delayed, Requeue(item) PROVE ItemInv(n)'
    <2>1. /\ delayed' = delayed \ {item} /\ dirty' = dirty \cup {item}
          /\ UNCHANGED <<sbp, sbpCache, stagedBindingPolicies, op, worker>>
      BY <1>9 DEF Requeue, wdsVars, resolverVars, cacheVars
    <2>2. CASE item # PolicyRef(n)
      <3>1. SameItem(n) /\ SameCall(n) /\ SamePolicy(n)
        BY <2>1, <2>2, SamePolicyIf DEF SameItem, SameCall, PolicyRef
      <3> QED
        BY <1>1, <3>1, ItemKept
    <2>3. CASE item = PolicyRef(n)
      <3>1. PolicyRef(n) \notin dirty /\ \A w \in Workers : ~Holds(w, n)
        BY <1>1, <2>3 DEF ItemInv, OnePlace
      <3>2. \A w \in Workers : ~Holds(w, n)'
        BY <2>1, <3>1 DEF Holds
      <3>3. PolicyRef(n)' \in dirty' /\ PolicyRef(n)' \notin delayed'
        BY <2>1, <2>3 DEF PolicyRef
      <3>4. OnePlace(n)' /\ Pending(n) /\ Noting(n) /\ Noting(n)'
        BY <2>3, <3>2, <3>3 DEF OnePlace, Pending, Noting
      <3>5. ~NotesFirst(n)' /\ ~(OpOn(n)' /\ op'.pc # "return" /\ Unnoted(n)')
        BY <1>1, <2>1, <3>1 DEF ItemInv, NotesFirst, OpOn, Unnoted, Tracked
      <3> QED
        BY <1>1, <2>1, <3>2, <3>4, <3>5 DEF ItemInv, HolderOK, Unnoted, Tracked
    <2> QED
      BY <2>2, <2>3
  <1>10. CASE Crash \/ Panic
    <2>1. /\ op' = None /\ dirty' = {} /\ delayed' = {}
          /\ Tracked(n)' = None /\ sbpCache'[n] = None
          /\ \A w \in Workers : worker'[w].pc = "idle"
      BY <1>10, LoseMemoryParts DEF Crash, Panic
    <2> QED
      BY <2>1 DEF ItemInv, OnePlace, Noting, Pending, Holds, HolderOK, NotesFirst, OpOn, Unnoted
  <1>11. CASE Restart
    <2>1. /\ op = None /\ delayed = {} /\ Tracked(n) = None
          /\ \A w \in Workers : worker[w].pc = "idle"
      BY <1>11 DEF Restart, DownInv
    <2>2. sbpCache' = sbp /\ UNCHANGED <<sbp, stagedBindingPolicies, op, delayed, worker>>
      BY <1>11 DEF Restart, wdsVars, resolverVars
    <2>3. Tracked(n)' = None /\ \A w \in Workers : ~Holds(w, n)'
      BY <2>1, <2>2 DEF Tracked, Holds
    <2>4. PolicyRef(n)' \in dirty' => sbp[n] # None
      BY <1>11 DEF Restart, PolicyRef, BindingRef, StatusRef
    <2>5. OnePlace(n)' /\ (Noting(n)' => sbp[n] # None)
      BY <2>1, <2>2, <2>3, <2>4 DEF OnePlace, Noting
    <2> QED
      BY <2>1, <2>2, <2>3, <2>5 DEF ItemInv, HolderOK, NotesFirst, OpOn, Unnoted
  <1>12. CASE UNCHANGED vars
    BY <1>4, <1>12 DEF vars, wdsVars, resolverVars, cacheVars, queueVars
  <1> QED
    BY <1>2, <1>3, <1>5, <1>6, <1>7, <1>8, <1>9, <1>10, <1>11, <1>12 DEF Next, Informers

LEMMA NextUidsDiffer ==
  ASSUME LeftAlone, TypeInv, VersionsInv, UidsDiffer, [Next]_vars
  PROVE  UidsDiffer'
  <1>1. WdsTypeOK /\ TableInv /\ Undisturbed /\ nextUid \in Nat
    BY LeftAloneIs DEF TypeInv, WdsTypeOK, Uids
  <1>2. \A n \in SBPs : sbp[n] # None => sbp[n].uid < nextUid
    BY DEF VersionsInv, UidUsed
  <1>3. CASE UNCHANGED sbp
    BY <1>3 DEF UidsDiffer
  <1>4. CASE Environment
    <2>1. WdsNext
      BY <1>4 DEF Environment
    <2>2. CASE \E m \in SBPs, stages \in StageLists : UserCreates(m, stages)
      <3> PICK m \in SBPs, stages \in StageLists : UserCreates(m, stages)
        BY <2>2
      <3>1. sbp'[m].uid = nextUid /\ \A n \in SBPs : n # m => sbp'[n] = sbp[n]
        BY <1>1 DEF UserCreates, WdsTypeOK
      <3> QED
        BY <1>1, <1>2, <3>1 DEF UidsDiffer
    <2>3. CASE ~\E m \in SBPs, stages \in StageLists : UserCreates(m, stages)
      <3>1. UNCHANGED sbp
        BY <1>1, <2>1, <2>3 DEF WdsNext, UserEdits, UserDeletes, Event, Undisturbed, WorkloadChanges,
          CollectBP, KubeStellar, KsBinds, KsRebinds, KsUnbinds, KsReports, KsRetracts
      <3> QED
        BY <1>3, <3>1
    <2> QED
      BY <2>2, <2>3
  <1>5. CASE Resolve
    <2> PICK p \in SBPs : op.sbp = p
      BY <1>1, <1>5, OpStepsBusy DEF Resolve
    <2>1. \A n \in SBPs : sbp'[n] = sbp[n] \/ SpecSame(n)
      BY <1>1, <1>5, OpStepsSame DEF Resolve
    <2>2. \A n \in SBPs : sbp'[n] # None => sbp[n] # None /\ sbp'[n].uid = sbp[n].uid
      BY <2>1, WdsAssumption DEF SpecSame
    <2> QED
      BY <2>2 DEF UidsDiffer
  <1>6. CASE Informers \/ (\E w \in Workers : WorkerStep(w)) \/ (\E item \in delayed : Requeue(item))
             \/ Crash \/ Panic \/ Restart \/ UNCHANGED vars
    BY <1>3, <1>6 DEF Informers, DeliverPolicy, DeliverBinding, DeliverStatus, WorkerStep, Get, ReadLister,
      Reconcile, Finish, Requeue, Crash, Panic, Restart, vars, wdsVars
  <1> QED
    BY <1>4, <1>5, <1>6 DEF Next

-----------------------------------------------------------------------------
(* Nothing is collected as garbage: what is deployed has its owner.        *)
LEMMA NothingCollected ==
  ASSUME WdsTypeOK, RolloutsInv, WdsNext
  PROVE  UNCHANGED bp
  <1>1. ASSUME NEW k \in BPKeys, CollectBP(k) PROVE FALSE
    <2>1. k[1] \in SBPs /\ k[2] \in StageNames /\ k = <<k[1], k[2]>>
      BY DEF BPKeys
    <2>2. Deployed(k[1], k[2]) /\ ~Owned(k)
      BY <1>1, <2>1 DEF CollectBP, Deployed
    <2>3. DeployedNear(k[1])
      BY <2>1 DEF RolloutsInv, RolloutInv
    <2> QED
      BY <2>1, <2>2, <2>3 DEF DeployedNear, Owned
  <1> QED
    BY <1>1 DEF WdsNext, UserCreates, UserEdits, UserDeletes, WorkloadChanges, KubeStellar,
      KsBinds, KsRebinds, KsUnbinds, KsReports, KsRetracts

(* A policy whose deployments, entry and progress a step does not touch.   *)
SameRollout(n) ==
    /\ sbp'[n] = sbp[n]
    /\ \A name \in StageNames : bp'[<<n, name>>] = bp[<<n, name>>]
    /\ (Tracked(n) = None /\ Tracked(n)' = None) \/ SameEntry(n)
    /\ nextUid \in Nat /\ nextUid' \in Nat /\ nextUid <= nextUid'

SameProgress(n) ==
    /\ StagingUp(n)' <=> StagingUp(n)
    /\ Deploying(n)' <=> Deploying(n)
    /\ Deleting(n)' <=> Deleting(n)

LEMMA StageNameTyped ==
  ASSUME WdsTypeOK, NEW n \in SBPs, sbp[n] # None
  PROVE  /\ sbp[n] \in SBPObjects
         /\ Len(sbp[n].stages) \in Nat
         /\ \A j \in 1..Len(sbp[n].stages) : sbp[n].stages[j].name \in StageNames
  <1>1. sbp[n] \in SBPObjects
    BY DEF WdsTypeOK
  <1>2. sbp[n].stages \in Seq(Stages) /\ Len(sbp[n].stages) \in Nat
    BY <1>1 DEF SBPObjects
  <1>3. \A j \in 1..Len(sbp[n].stages) : sbp[n].stages[j] \in Stages
    BY <1>2
  <1> QED
    BY <1>1, <1>2, <1>3 DEF Stages

(* The keys of policy n, of its stage at position j.                       *)
LEMMA StageDeployedKept ==
  ASSUME NEW n \in SBPs, WdsTypeOK, sbp[n] # None, sbp'[n] # None, sbp'[n].stages = sbp[n].stages,
         NEW j, \A name \in StageNames : bp'[<<n, name>>] = bp[<<n, name>>]
  PROVE  StageDeployed(n, j)' <=> StageDeployed(n, j)
  BY StageNameTyped DEF StageDeployed, Deployed

(* An operation that is not returning is at work on a tracked policy.      *)
LEMMA OnTracked ==
  ASSUME TypeInv, NEW n \in SBPs, OpOn(n), op.pc # "return"
  PROVE  /\ Tracked(n) \in Entries /\ Tracked(n) # None
         /\ Tracked(n).activeIndex \in Nat
         /\ Entry = Tracked(n)
  BY InProgressTyped, ResolverAssumption DEF TypeInv, OpOn, Entry, Tracked

LEMMA RolloutOfNone ==
  ASSUME TypeInv, ReadsHold, NEW n \in SBPs, sbp[n] = None
  PROVE  /\ Tracked(n) = None
         /\ ~Deploying(n) /\ ~Deleting(n)
         /\ RolloutInv(n) <=> \A name \in StageNames : ~Deployed(n, name)
  <1>1. Tracked(n) = None
    BY DEF ReadsHold
  <1>2. ~Deploying(n) /\ ~Deleting(n)
    BY <1>1, OnTracked DEF Deploying, Deleting
  <1> QED
    BY <1>1, <1>2 DEF RolloutInv, DeployedNear, NoneAhead, IndexOK, Live

LEMMA RolloutKept ==
  ASSUME TypeInv, ReadsHold, CopiesInv, NEW n \in SBPs, RolloutInv(n), SameRollout(n), SameProgress(n)
  PROVE  RolloutInv(n)'
  <1>0. WdsTypeOK
    BY DEF TypeInv
  <1>1. CASE sbp[n] = None
    <2>1. Tracked(n) = None /\ ~Deploying(n) /\ ~Deleting(n) /\ \A name \in StageNames : ~Deployed(n, name)
      BY <1>1, RolloutOfNone
    <2>2. Tracked(n)' = None
      BY <2>1, ResolverAssumption DEF SameRollout, SameEntry
    <2> QED
      BY <1>1, <2>1, <2>2 DEF SameRollout, SameProgress, RolloutInv, DeployedNear, NoneAhead, IndexOK, Live, Deployed
  <1>2. CASE sbp[n] # None
    <2>1. \A j : StageDeployed(n, j)' <=> StageDeployed(n, j)
      BY <1>0, <1>2, StageDeployedKept DEF SameRollout
    <2>2. Position(sbp[n])' = Position(sbp[n])
      BY DEF SameRollout
    <2>3. DeployedNear(n)'
      BY <1>2, <2>1, <2>2 DEF RolloutInv, DeployedNear, SameRollout, Deployed
    <2>4. ASSUME Tracked(n) # None
          PROVE  /\ SameEntry(n) /\ Tracked(n)' # None
                 /\ Tracked(n)'.activeIndex = Tracked(n).activeIndex
                 /\ Unnoted(n)' <=> Unnoted(n)
                 /\ HasUid(n)' <=> HasUid(n)
      <3>1. SameEntry(n) /\ Tracked(n)' # None
        BY <2>4, ResolverAssumption DEF SameRollout, SameEntry
      <3>2. Unnoted(n)' <=> Unnoted(n)
        BY <2>4, <3>1 DEF SameEntry, Unnoted
      <3>3. Tracked(n).stages = sbp[n].stages
        BY <2>4 DEF CopiesInv, CopyOf, SameVersion
      <3>4. ASSUME StageDeployed(n, Tracked(n).activeIndex + 1)
            PROVE  bp'[Key(n, Tracked(n), Tracked(n).activeIndex)] = bp[Key(n, Tracked(n), Tracked(n).activeIndex)]
        <4>1. Tracked(n).stages[Tracked(n).activeIndex + 1].name \in StageNames
          BY <1>0, <1>2, <3>3, <3>4, StageNameTyped DEF StageDeployed
        <4> QED
          BY <4>1 DEF SameRollout, Key, Stage
      <3>5. Key(n, Tracked(n), Tracked(n).activeIndex)' = Key(n, Tracked(n), Tracked(n).activeIndex)
        BY <3>1 DEF SameEntry, Key, Stage
      <3> QED
        BY <2>1, <3>1, <3>2, <3>4, <3>5 DEF SameEntry, HasUid
    <2>5. Deploying(n) \/ Deleting(n) => Tracked(n) # None
      BY OnTracked DEF Deploying, Deleting
    <2>6. NoneAhead(n)'
      BY <1>2, <2>1, <2>2, <2>4, <2>5 DEF RolloutInv, NoneAhead, SameProgress, SameRollout
    <2>7. Tracked(n)' # None => Tracked(n) # None
      BY ResolverAssumption DEF SameRollout, SameEntry
    <2>8. IndexOK(n)'
      <3> SUFFICES ASSUME Tracked(n)' # None PROVE IndexOK(n)'
        BY DEF IndexOK
      <3>1. StagingUp(n) => (op'.pc # "delete" => op.pc # "delete")
        BY DEF SameProgress, Deleting, StagingUp, OpOn
      <3> QED
        BY <2>1, <2>2, <2>4, <2>7, <3>1 DEF RolloutInv, IndexOK, SameProgress, SameRollout
    <2>9. Live(n)'
      BY <2>1, <2>4, <2>7, WdsAssumption DEF RolloutInv, Live, SameProgress, SameRollout
    <2> QED
      BY <2>3, <2>4, <2>5, <2>6, <2>8, <2>9 DEF RolloutInv, SameProgress
  <1> QED
    BY <1>1, <1>2

(* Steps that leave the operation and the table alone, and calls that are  *)
(* not for the policy.                                                     *)
LEMMA SameProgressIf ==
  ASSUME NEW n \in SBPs,
         ~OpOn(n) \/ op.pc \in {"return", "create", "attempt"},
         ~StagingUp(n), ~StagingUp(n)',
         ~OpOn(n)' \/ op'.pc \in {"return", "create", "attempt"}
  PROVE  SameProgress(n)
  BY DEF SameProgress, Deploying, Deleting, OpOn

LEMMA RolloutUntouched ==
  ASSUME TypeInv, ReadsHold, CopiesInv, NEW n \in SBPs, RolloutInv(n),
         UNCHANGED <<sbp, bp, nextUid, stagedBindingPolicies, op>>
  PROVE  RolloutInv(n)'
  <1>1. TableInv /\ nextUid \in Nat
    BY DEF TypeInv, WdsTypeOK, Uids
  <1>2. Tracked(n)' = Tracked(n)
    BY DEF Tracked
  <1>3. SameRollout(n)
    BY <1>1, <1>2, KeptIsSame DEF SameRollout
  <1>4. SameProgress(n)
    BY DEF SameProgress, StagingUp, Deploying, Deleting, OpOn
  <1> QED
    BY <1>3, <1>4, RolloutKept

LEMMA UsersRollout ==
  ASSUME LeftAlone, TypeInv, ReadsHold, CopiesInv, RolloutsInv, Environment, NEW n \in SBPs
  PROVE  RolloutInv(n)'
  <1>1. /\ WdsTypeOK /\ TableInv /\ Undisturbed /\ RolloutInv(n)
        /\ WdsNext /\ UNCHANGED <<stagedBindingPolicies, op>> /\ UNCHANGED bp
        /\ nextUid \in Nat /\ nextUid' \in Nat /\ nextUid <= nextUid'
    <2>1. WdsTypeOK /\ Undisturbed /\ WdsNext
      BY LeftAloneIs DEF TypeInv, Environment
    <2>2. nextUid \in Nat /\ nextUid' \in Nat /\ nextUid <= nextUid'
      BY NextBpMoves DEF Next, BpMoves
    <2> QED
      BY <2>1, <2>2, NothingCollected DEF TypeInv, RolloutsInv, Environment, resolverVars
  <1>2. CASE sbp[n] # None
    <2>1. sbp'[n] = sbp[n] /\ Tracked(n)' = Tracked(n)
      BY <1>1, <1>2, UsersKeepPolicies DEF Tracked
    <2>2. SameRollout(n)
      BY <1>1, <2>1, KeptIsSame DEF SameRollout
    <2>3. SameProgress(n)
      BY <1>1 DEF SameProgress, StagingUp, Deploying, Deleting, OpOn
    <2> QED
      BY <1>1, <2>2, <2>3, RolloutKept
  <1>3. CASE sbp[n] = None
    <2>1. Tracked(n) = None /\ ~Deploying(n) /\ ~Deleting(n) /\ \A name \in StageNames : ~Deployed(n, name)
      BY <1>1, <1>3, RolloutOfNone
    <2>2. /\ Tracked(n)' = None /\ ~Deploying(n)' /\ ~Deleting(n)'
          /\ \A name \in StageNames : ~Deployed(n, name)'
      BY <1>1, <2>1 DEF Tracked, Deploying, Deleting, OpOn, Deployed
    <2>3. sbp'[n] # None => sbp'[n] \in SBPObjects
      BY <1>1, <1>3, UsersOnlyCreate
    <2>4. ASSUME sbp'[n] # None, NEW j PROVE ~StageDeployed(n, j)'
      <3>1. \A i \in 1..Len(sbp'[n].stages) : sbp'[n].stages[i].name \in StageNames
        <4>1. sbp'[n].stages \in Seq(Stages)
          BY <2>3, <2>4 DEF SBPObjects
        <4>2. \A i \in 1..Len(sbp'[n].stages) : sbp'[n].stages[i] \in Stages
          BY <4>1
        <4> QED
          BY <4>2 DEF Stages
      <3> QED
        BY <2>2, <3>1 DEF StageDeployed, Deployed
    <2> QED
      BY <2>2, <2>4 DEF RolloutInv, DeployedNear, NoneAhead, IndexOK, Live
  <1> QED
    BY <1>2, <1>3

LEMMA ReconcileRollout ==
  ASSUME TypeInv, ReadsHold, CopiesInv, SpecsInv, ItemsInv, RolloutsInv,
         NEW w \in Workers, Reconcile(w), NEW n \in SBPs
  PROVE  RolloutInv(n)'
  <1>1. /\ op = None /\ op' \in Ops /\ ~op'.staging /\ op'.pc # "update"
        /\ worker[w].pc = "read"
        /\ UNCHANGED <<sbp, bp, nextUid>>
        /\ RolloutInv(n) /\ nextUid \in Nat /\ WdsTypeOK
    BY ReconcileParts DEF Reconcile, wdsVars, RolloutsInv, TypeInv, WdsTypeOK, Uids
  <1>2. ~StagingUp(n) /\ ~StagingUp(n)' /\ ~OpOn(n) /\ ~Deploying(n)
    BY <1>1 DEF StagingUp, OpOn, Deploying
  <1>3. CASE worker[w].item # PolicyRef(n)
    <2>1. SameRollout(n)
      BY <1>1, <1>3, ReconcileParts DEF SameRollout
    <2>2. OpOn(n)' => op'.pc \in {"return", "attempt"}
      BY <1>3, ReconcileOthers DEF OpOn
    <2>3. SameProgress(n)
      BY <1>2, <2>2, SameProgressIf
    <2> QED
      BY <1>1, <2>1, <2>3, RolloutKept
  <1>4. CASE worker[w].item = PolicyRef(n)
    <2>1. Holds(w, n) /\ Noting(n)
      BY <1>1, <1>4 DEF Holds, Noting
    <2>2. worker[w].obj = sbp[n] /\ sbp[n] # None
      BY <1>1, <2>1 DEF ItemsInv, ItemInv, HolderOK, ReadsHold
    <2>3. /\ Tracked(n)' \in Entries
          /\ Tracked(n)'.activeIndex = ActiveStage(sbp[n])
          /\ Tracked(n)'.activeBindingPolicyUID = NoUid
          /\ op'.pc = IF ActiveStage(sbp[n]) > 0 THEN "delete" ELSE "create"
      BY <1>4, <2>2, ReconcileParts
    <2>4. Unnoted(n)' /\ ~Deploying(n)' /\ (Deleting(n)' => Tracked(n)'.activeIndex > 0)
      BY <2>3 DEF Unnoted, Deploying, Deleting
    <2>5. /\ ActiveStage(sbp[n]) + 1 = Position(sbp[n])
             \/ (ActiveStage(sbp[n]) = 0 /\ Position(sbp[n]) = 0)
      BY <1>1, <2>2, ActiveStageIs, StageNameTyped DEF CopiesInv
    <2>6. IndexOK(n)'
      BY <1>1, <1>2, <2>3, <2>4, <2>5 DEF IndexOK
    <2>7. DeployedNear(n)' /\ NoneAhead(n)'
      BY <1>1, <1>2 DEF RolloutInv, DeployedNear, NoneAhead, StageDeployed, Deployed
    <2> QED
      BY <2>4, <2>6, <2>7 DEF RolloutInv, Live
  <1> QED
    BY <1>3, <1>4

-----------------------------------------------------------------------------
(* What holds of the policy an operation is at work on.                    *)
NameAt(n, j) == sbp[n].stages[j].name

LEMMA AtWork ==
  ASSUME TypeInv, ReadsHold, CopiesInv, NEW n \in SBPs, OpOn(n), op.pc # "return"
  PROVE  /\ sbp[n] # None /\ sbp[n] \in SBPObjects /\ Distinct(sbp[n].stages)
         /\ Len(sbp[n].stages) \in Nat
         /\ Position(sbp[n]) \in 0..Len(sbp[n].stages)
         /\ \A j \in 1..Len(sbp[n].stages) : NameAt(n, j) \in StageNames
         /\ Tracked(n) \in Entries /\ Tracked(n) # None
         /\ Tracked(n).activeIndex \in Nat
         /\ Tracked(n).stages = sbp[n].stages
         /\ Tracked(n).uid = sbp[n].uid
         /\ op.staging \in BOOLEAN
  <1>1. WdsTypeOK /\ op \in Ops
    BY DEF TypeInv, TableInv, OpOn
  <1>2. Tracked(n) \in Entries /\ Tracked(n) # None /\ Tracked(n).activeIndex \in Nat
    BY OnTracked
  <1>3. sbp[n] # None
    BY <1>2 DEF ReadsHold
  <1>4. Tracked(n).stages = sbp[n].stages /\ Tracked(n).uid = sbp[n].uid /\ Distinct(sbp[n].stages)
    BY <1>2, <1>3 DEF CopiesInv, CopyOf, SameVersion
  <1> QED
    BY <1>1, <1>2, <1>3, <1>4, StageNameTyped, PositionTyped DEF Ops, NameAt

(* A stage is left or, before its first Create, has not been entered.      *)
LEMMA WhereItStands ==
  ASSUME TypeInv, ReadsHold, CopiesInv, ItemsInv, NEW n \in SBPs, OpOn(n), op.pc # "return", RolloutInv(n)
  PROVE  LET s == Position(sbp[n])
             i == Tracked(n).activeIndex
         IN  \/ /\ op.staging /\ ~Unnoted(n)
                /\ i = s /\ s \in 1..Len(sbp[n].stages) /\ sbp[n].stages[s].cond
                /\ op.pc # "delete" => ~StageDeployed(n, s)
             \/ ~op.staging /\ i + 1 = s
             \/ ~op.staging /\ i = 0 /\ s = 0 /\ (op.pc \in {"delete", "create"} => Unnoted(n))
  <1>1. Tracked(n) # None /\ op.staging \in BOOLEAN /\ op # None
    BY AtWork DEF OpOn
  <1>2. IndexOK(n) /\ ItemInv(n)
    BY DEF RolloutInv, ItemsInv
  <1>3. op.staging => ~Unnoted(n)
    BY <1>2 DEF ItemInv, NotesFirst
  <1>4. StagingUp(n) <=> op.staging
    BY <1>1 DEF StagingUp, OpOn
  <1>5. Deploying(n) => op.pc \notin {"delete", "create"}
    BY DEF Deploying
  <1> HIDE DEF Unnoted
  <1> QED
    BY <1>1, <1>2, <1>3, <1>4, <1>5 DEF IndexOK

LEMMA LeavesRollout ==
  ASSUME TypeInv, ReadsHold, CopiesInv, SpecsInv, ItemsInv, NEW n \in SBPs, OpOn(n), op.pc # "return",
         RolloutInv(n), LeavesStage(n)
  PROVE  RolloutInv(n)'
  <1> DEFINE s == Position(sbp[n])
             i == Tracked(n).activeIndex
  <1>1. /\ sbp[n] # None /\ sbp[n] \in SBPObjects /\ Len(sbp[n].stages) \in Nat
        /\ s \in 0..Len(sbp[n].stages) /\ i \in Nat
        /\ Tracked(n).stages = sbp[n].stages /\ Tracked(n) # None
    BY AtWork
  <1>2. op.pc = "attempt" /\ ~op.staging /\ UNCHANGED <<sbp, bp, nextUid>>
    BY DEF LeavesStage
  <1>3. ~Unnoted(n) /\ Stage(Tracked(n), i).cond
    <2>1. Entry = Tracked(n)
      BY <1>2, OnTracked
    <2> QED
      BY <1>2, <2>1 DEF SpecsInv, AttemptOK, OpOn
  <1>4. i + 1 = s
    <2>1. IndexOK(n) /\ ~StagingUp(n) /\ ~Deploying(n)
      BY <1>2 DEF RolloutInv, StagingUp, Deploying
    <2> QED
      BY <1>1, <1>3, <2>1 DEF IndexOK
  <1>5. /\ Tracked(n)' # None /\ Tracked(n)'.activeIndex = i + 1
        /\ op' # None /\ op'.pc = "delete" /\ op'.staging /\ op'.sbp = n
    BY ResolverAssumption DEF LeavesStage, EntryBecomes, OpBecomes
  <1>6. StagingUp(n)' /\ ~Deploying(n)' /\ ~Deploying(n)
    BY <1>2, <1>5 DEF StagingUp, Deploying
  <1>7. IndexOK(n)'
    BY <1>1, <1>2, <1>3, <1>4, <1>5, <1>6 DEF IndexOK, Stage
  <1>8. DeployedNear(n)' /\ NoneAhead(n)'
    BY <1>2, <1>6 DEF RolloutInv, DeployedNear, NoneAhead, StageDeployed, Deployed
  <1> QED
    BY <1>1, <1>4, <1>5, <1>6, <1>7, <1>8 DEF RolloutInv, Live

LEMMA DeletesRollout ==
  ASSUME TypeInv, ReadsHold, CopiesInv, ItemsInv, NEW n \in SBPs, OpOn(n), op.pc # "return",
         RolloutInv(n), Deletes(n)
  PROVE  RolloutInv(n)'
  <1> DEFINE s == Position(sbp[n])
             i == Tracked(n).activeIndex
             L == Len(sbp[n].stages)
  <1>1. /\ sbp[n] # None /\ sbp[n] \in SBPObjects /\ L \in Nat
        /\ s \in 0..L /\ i \in Nat
        /\ Tracked(n).stages = sbp[n].stages /\ Tracked(n) # None
        /\ Distinct(sbp[n].stages) /\ \A j \in 1..L : NameAt(n, j) \in StageNames
        /\ WdsTypeOK
    BY AtWork DEF TypeInv
  <1>2. op.pc = "delete" /\ UNCHANGED <<sbp, nextUid>> /\ op # None
    BY DEF Deletes, OpOn
  <1>3. Tracked(n)' = Tracked(n) /\ op' # None /\ op'.pc = "create" /\ op'.staging = op.staging /\ op'.sbp = n
    BY ResolverAssumption DEF Deletes, TableKept, Tracked, OpBecomes
  <1>4. i > 0
    BY <1>2 DEF RolloutInv, Deleting
  <1>5. \/ op.staging /\ i = s /\ s \in 1..L /\ sbp[n].stages[s].cond
        \/ ~op.staging /\ i + 1 = s
    BY <1>4, WhereItStands
  <1>6. i \in 1..L
    BY <1>1, <1>4, <1>5
  <1>7. PreviousKey(n) = <<n, NameAt(n, i)>>
    <2>1. i - 1 + 1 = i
      BY <1>1
    <2> QED
      BY <1>1, <2>1 DEF PreviousKey, Key, Stage, NameAt
  <1>8. \A name \in StageNames :
           /\ name = NameAt(n, i) => bp'[<<n, name>>] = None
           /\ name # NameAt(n, i) => bp'[<<n, name>>] = bp[<<n, name>>]
    BY <1>1, <1>6, <1>7 DEF Deletes, WdsTypeOK, BPKeys
  <1>9. \A j : StageDeployed(n, j)' <=> StageDeployed(n, j) /\ j # i
    <2> TAKE j
    <2>1. j \in 1..L => NameAt(n, j) \in StageNames /\ (NameAt(n, j) = NameAt(n, i) => j = i)
      BY <1>1, <1>6 DEF Distinct, NameAt
    <2> QED
      BY <1>2, <1>8, <2>1 DEF StageDeployed, Deployed, NameAt
  <1>10. DeployedNear(n)'
    <2> SUFFICES ASSUME NEW name \in StageNames, Deployed(n, name)'
                 PROVE  /\ bp'[<<n, name>>].owner = sbp[n].uid
                        /\ \E j \in {s, s + 1} : StageDeployed(n, j)' /\ sbp[n].stages[j].name = name
      BY <1>1, <1>2 DEF DeployedNear
    <2>1. name # NameAt(n, i) /\ bp'[<<n, name>>] = bp[<<n, name>>]
      BY <1>8 DEF Deployed
    <2>2. Deployed(n, name)
      BY <2>1 DEF Deployed
    <2>3. PICK j \in {s, s + 1} : StageDeployed(n, j) /\ sbp[n].stages[j].name = name
      BY <2>2 DEF RolloutInv, DeployedNear
    <2>4. bp[<<n, name>>].owner = sbp[n].uid
      BY <2>2 DEF RolloutInv, DeployedNear
    <2>5. j # i
      BY <2>1, <2>3 DEF NameAt
    <2> QED
      BY <1>9, <2>1, <2>3, <2>4, <2>5
  <1>11. NoneAhead(n)'
    BY <1>1, <1>2, <1>9 DEF RolloutInv, NoneAhead, Deploying
  <1>12. (StagingUp(n)' <=> op.staging) /\ (StagingUp(n) <=> op.staging) /\ (Unnoted(n)' <=> Unnoted(n))
    BY <1>2, <1>3 DEF StagingUp, OpOn, Unnoted
  <1>13. IndexOK(n)'
    BY <1>1, <1>2, <1>3, <1>5, <1>9, <1>12 DEF IndexOK
  <1>14. op.staging \/ Unnoted(n)
    <2>1. ItemInv(n)
      BY DEF ItemsInv
    <2>2. NotesFirst(n) => Unnoted(n)
      BY <2>1 DEF ItemInv
    <2> QED
      BY <1>2, <2>2 DEF NotesFirst
  <1>15. Live(n)'
    BY <1>12, <1>14 DEF Live
  <1> QED
    BY <1>3, <1>10, <1>11, <1>13, <1>15 DEF RolloutInv, Deploying, Deleting

LEMMA DeploysRollout ==
  ASSUME TypeInv, ReadsHold, CopiesInv, ItemsInv, NEW n \in SBPs, OpOn(n), op.pc # "return",
         RolloutInv(n), Deploys(n)
  PROVE  RolloutInv(n)'
  <1> DEFINE s == Position(sbp[n])
             i == Tracked(n).activeIndex
             L == Len(sbp[n].stages)
  <1>1. /\ sbp[n] # None /\ sbp[n] \in SBPObjects /\ L \in Nat
        /\ s \in 0..L /\ i \in Nat
        /\ Tracked(n).stages = sbp[n].stages /\ Tracked(n) # None
        /\ Tracked(n).uid = sbp[n].uid
        /\ Distinct(sbp[n].stages) /\ \A j \in 1..L : NameAt(n, j) \in StageNames
        /\ WdsTypeOK
    BY AtWork DEF TypeInv
  <1>2. op.pc = "create" /\ UNCHANGED sbp /\ op # None /\ i < L
    BY <1>1 DEF Deploys, OpOn
  <1>3. /\ Tracked(n)' # None /\ Tracked(n)'.stages = Tracked(n).stages
        /\ Tracked(n)'.activeIndex = i /\ Tracked(n)'.activeBindingPolicyUID = nextUid
        /\ op' # None /\ op'.pc = "get" /\ op'.staging = op.staging /\ op'.sbp = n
    BY ResolverAssumption DEF Deploys, EntryBecomes, OpBecomes
  <1>4. \/ op.staging /\ i = s /\ s \in 1..L /\ sbp[n].stages[s].cond /\ ~StageDeployed(n, s)
        \/ ~op.staging /\ i + 1 = s
        \/ ~op.staging /\ i = 0 /\ s = 0
    BY <1>2, WhereItStands
  <1>5. i + 1 \in 1..L /\ i + 1 \in {s, s + 1}
    BY <1>1, <1>2, <1>4
  <1>6. ActiveKey(n) = <<n, NameAt(n, i + 1)>>
    BY <1>1 DEF ActiveKey, Key, Stage, NameAt
  <1> DEFINE made == [uid |-> nextUid, owner |-> sbp[n].uid]
  <1>7. \A name \in StageNames :
           /\ name = NameAt(n, i + 1) => bp'[<<n, name>>] = made
           /\ name # NameAt(n, i + 1) => bp'[<<n, name>>] = bp[<<n, name>>]
    BY <1>1, <1>5, <1>6 DEF Deploys, WdsTypeOK, BPKeys
  <1>8. made # None /\ made.uid = nextUid /\ made.owner = sbp[n].uid
    <2>1. made \in BPObjects
      BY <1>1 DEF WdsTypeOK, SBPObjects, BPObjects
    <2> QED
      BY <2>1, WdsAssumption
  <1> HIDE DEF made
  <1>9. \A j : StageDeployed(n, j)' <=> StageDeployed(n, j) \/ j = i + 1
    <2> TAKE j
    <2>1. j \in 1..L => NameAt(n, j) \in StageNames /\ (NameAt(n, j) = NameAt(n, i + 1) => j = i + 1)
      BY <1>1, <1>5 DEF Distinct, NameAt
    <2> QED
      BY <1>2, <1>5, <1>7, <1>8, <2>1 DEF StageDeployed, Deployed, NameAt
  <1>10. DeployedNear(n)'
    <2> SUFFICES ASSUME NEW name \in StageNames, Deployed(n, name)'
                 PROVE  /\ bp'[<<n, name>>].owner = sbp[n].uid
                        /\ \E j \in {s, s + 1} : StageDeployed(n, j)' /\ sbp[n].stages[j].name = name
      BY <1>1, <1>2 DEF DeployedNear
    <2>1. CASE name = NameAt(n, i + 1)
      BY <1>5, <1>7, <1>8, <1>9, <2>1 DEF NameAt
    <2>2. CASE name # NameAt(n, i + 1)
      <3>1. Deployed(n, name) /\ bp'[<<n, name>>] = bp[<<n, name>>]
        BY <1>7, <2>2 DEF Deployed
      <3> QED
        BY <1>9, <3>1 DEF RolloutInv, DeployedNear
    <2> QED
      BY <2>1, <2>2
  <1>11. Deploying(n)' /\ ~Deploying(n) /\ ~Deleting(n)'
    BY <1>2, <1>3 DEF Deploying, Deleting, OpOn
  <1>12. NoneAhead(n)'
    <2> SUFFICES ASSUME StageDeployed(n, s + 1)', "crash" \notin EventKinds PROVE i = s
      BY <1>2, <1>3, <1>11 DEF NoneAhead
    <2>1. ~StageDeployed(n, s + 1)
      BY <1>1, <1>11 DEF RolloutInv, NoneAhead
    <2>2. (s + 1)' = s + 1
      BY <1>2
    <2> QED
      BY <1>1, <1>9, <2>1, <2>2
  <1>13. HasUid(n)'
    <2>1. Key(n, Tracked(n), i)' = <<n, NameAt(n, i + 1)>>
      BY <1>1, <1>3 DEF Key, Stage, NameAt
    <2> QED
      BY <1>1, <1>3, <1>5, <1>7, <1>8, <1>9, <2>1 DEF HasUid
  <1>14. (StagingUp(n)' <=> op.staging)
    BY <1>3 DEF StagingUp
  <1>15. IndexOK(n)'
    BY <1>1, <1>2, <1>3, <1>4, <1>9, <1>11, <1>14 DEF IndexOK
  <1> QED
    BY <1>10, <1>11, <1>12, <1>13, <1>15 DEF RolloutInv, Live

LEMMA RefusedRollout ==
  ASSUME TypeInv, ReadsHold, CopiesInv, ItemsInv, NEW n \in SBPs, OpOn(n), op.pc # "return",
         RolloutInv(n), Refused(n)
  PROVE  RolloutInv(n)'
  <1> DEFINE s == Position(sbp[n])
             i == Tracked(n).activeIndex
             L == Len(sbp[n].stages)
  <1>1. /\ sbp[n] # None /\ L \in Nat /\ s \in 0..L /\ i \in Nat
        /\ Tracked(n).stages = sbp[n].stages /\ Tracked(n) # None
        /\ op.staging \in BOOLEAN /\ nextUid \in Nat
    BY AtWork DEF TypeInv, WdsTypeOK, Uids
  <1>2. op.pc = "create" /\ UNCHANGED <<sbp, bp, nextUid>> /\ op # None /\ i < L
    BY <1>1 DEF Refused, OpOn
  <1>3. /\ Tracked(n)' # None /\ Tracked(n)'.stages = Tracked(n).stages
        /\ Tracked(n)'.activeIndex = IF op.staging THEN i - 1 ELSE i
        /\ Unnoted(n)' <=> Unnoted(n)
        /\ op' # None /\ op'.pc = "return" /\ ~op'.staging
    BY <1>1, ResolverAssumption DEF Refused, EntryBecomes, OpBecomes, Unnoted
  <1>4. \/ op.staging /\ ~Unnoted(n) /\ i = s /\ s \in 1..L
        \/ ~op.staging /\ Unnoted(n) /\ (i + 1 = s \/ (i = 0 /\ s = 0))
    <2>1. ItemInv(n)
      BY DEF ItemsInv
    <2>2. ~op.staging => Unnoted(n)
      BY <1>2, <2>1 DEF ItemInv, NotesFirst
    <2> QED
      BY <1>2, <2>2, WhereItStands
  <1>5. ~Deploying(n) /\ ~Deploying(n)' /\ ~Deleting(n)' /\ ~StagingUp(n)'
    BY <1>2, <1>3 DEF Deploying, Deleting, StagingUp
  <1>6. \A j : StageDeployed(n, j)' <=> StageDeployed(n, j)
    BY <1>2 DEF StageDeployed, Deployed
  <1>7. DeployedNear(n)' /\ NoneAhead(n)'
    BY <1>2, <1>5, <1>6 DEF RolloutInv, DeployedNear, NoneAhead, Deployed
  <1>8. IndexOK(n)'
    BY <1>1, <1>2, <1>3, <1>4, <1>5 DEF IndexOK
  <1>9. Live(n)'
    <2> SUFFICES ASSUME op.staging, nextUid <= MaxUid PROVE StageDeployed(n, Tracked(n)'.activeIndex + 2)
      BY <1>2, <1>3, <1>4, <1>6 DEF Live
    <2>1. bp[ActiveKey(n)] # None
      BY <1>1, WdsAssumption DEF Refused
    <2>2. ActiveKey(n) = <<n, sbp[n].stages[i + 1].name>>
      BY <1>1 DEF ActiveKey, Key, Stage
    <2>3. i + 1 \in 1..L /\ Tracked(n)'.activeIndex + 2 = i + 1
      BY <1>1, <1>2, <1>3
    <2> QED
      BY <2>1, <2>2, <2>3 DEF StageDeployed, Deployed
  <1> QED
    BY <1>5, <1>7, <1>8, <1>9 DEF RolloutInv

LEMMA AnnouncesRollout ==
  ASSUME TypeInv, ReadsHold, CopiesInv, ItemsInv, NEW n \in SBPs, OpOn(n), op.pc # "return",
         RolloutInv(n), Announces(n)
  PROVE  /\ RolloutInv(n)'
         /\ sbp'[n].active = sbp[n].active \/ Position(sbp[n])' = Position(sbp[n]) + 1
  <1> DEFINE s == Position(sbp[n])
             i == Tracked(n).activeIndex
             L == Len(sbp[n].stages)
  <1>1. /\ sbp[n] # None /\ sbp[n] \in SBPObjects /\ L \in Nat /\ s \in 0..L /\ i \in Nat
        /\ Tracked(n).stages = sbp[n].stages /\ Tracked(n) # None
        /\ Distinct(sbp[n].stages) /\ op.staging \in BOOLEAN
    BY AtWork
  <1>2. op.pc = "update" /\ UNCHANGED <<bp, nextUid>> /\ op # None
    BY DEF Announces, OpOn
  <1>3. Deploying(n) /\ HasUid(n)
    BY <1>2 DEF Deploying, RolloutInv
  <1>4. /\ sbp'[n] \in SBPObjects /\ sbp'[n] # None
        /\ sbp'[n].uid = sbp[n].uid /\ sbp'[n].stages = sbp[n].stages
        /\ sbp'[n].active = sbp[n].stages[i + 1].name
    BY <1>1, WdsAssumption DEF Announces, StatusBecomes, ActiveName, Stage
  <1>5. Tracked(n)' = Tracked(n) /\ (Unnoted(n)' <=> Unnoted(n))
    BY DEF Announces, TableKept, Tracked, Unnoted
  <1>6. op' # None /\ op'.sbp = n /\ ~op'.staging /\ op'.pc \in {"return", "attempt"}
    BY ResolverAssumption DEF Announces, OpAttempts, OpBecomes
  <1>7. ~Deploying(n)' /\ ~Deleting(n)' /\ ~StagingUp(n)'
    BY <1>6 DEF Deploying, Deleting, StagingUp
  <1>8. i + 1 \in 1..L
    BY <1>3 DEF HasUid, StageDeployed
  <1>9. Position(sbp[n])' = i + 1
    <2>1. Position(sbp'[n]) = i + 1
      BY <1>1, <1>4, <1>8, PositionIs
    <2> QED
      BY <2>1
  <1>10. \/ op.staging /\ i = s /\ ~StageDeployed(n, s)
         \/ ~op.staging /\ i + 1 = s
         \/ ~op.staging /\ i = 0 /\ s = 0
    BY <1>2, WhereItStands
  <1>11. \A j : StageDeployed(n, j)' <=> StageDeployed(n, j)
    BY <1>2, <1>4 DEF StageDeployed, Deployed
  <1>12. ~StageDeployed(n, 0)
    BY <1>1 DEF StageDeployed
  <1>13. DeployedNear(n)'
    <2> SUFFICES ASSUME NEW name \in StageNames, Deployed(n, name)
                 PROVE  /\ bp[<<n, name>>].owner = sbp[n].uid
                        /\ \/ StageDeployed(n, i + 1) /\ sbp[n].stages[i + 1].name = name
                           \/ StageDeployed(n, i + 2) /\ sbp[n].stages[i + 2].name = name
      <3>1. i + 1 \in {i + 1, i + 1 + 1} /\ i + 2 \in {i + 1, i + 1 + 1}
        BY <1>1
      <3> QED
        BY <1>2, <1>4, <1>9, <1>11, <3>1 DEF DeployedNear, Deployed
    <2>1. PICK j \in {s, s + 1} : StageDeployed(n, j) /\ sbp[n].stages[j].name = name
      BY DEF RolloutInv, DeployedNear
    <2>2. bp[<<n, name>>].owner = sbp[n].uid
      BY DEF RolloutInv, DeployedNear
    <2>3. j = i + 1 \/ j = i + 2
      BY <1>1, <1>10, <1>12, <2>1
    <2> QED
      BY <2>1, <2>2, <2>3
  <1>14. NoneAhead(n)'
    <2> SUFFICES ASSUME StageDeployed(n, i + 2) PROVE "crash" \in EventKinds
      <3>1. i + 1 + 1 = i + 2
        BY <1>1
      <3> QED
        BY <1>7, <1>9, <1>11, <3>1 DEF NoneAhead
    <2>1. i + 2 \in 1..L /\ Deployed(n, sbp[n].stages[i + 2].name)
      BY DEF StageDeployed
    <2>2. sbp[n].stages[i + 2].name \in StageNames
      BY <1>1, <2>1, AtWork DEF NameAt
    <2>3. PICK j \in {s, s + 1} : StageDeployed(n, j) /\ sbp[n].stages[j].name = sbp[n].stages[i + 2].name
      BY <2>1, <2>2 DEF RolloutInv, DeployedNear
    <2>4. j = i + 2
      BY <1>1, <2>1, <2>3 DEF Distinct, StageDeployed
    <2>5. i + 1 = s
      BY <1>1, <1>10, <2>3, <2>4
    <2>6. StageDeployed(n, s + 1)
      <3>1. s + 1 = i + 2
        BY <1>1, <2>5
      <3> QED
        BY <3>1
    <2> QED
      BY <1>1, <2>5, <2>6 DEF RolloutInv, NoneAhead
  <1>15. IndexOK(n)'
    BY <1>1, <1>5, <1>7, <1>9 DEF IndexOK
  <1>16. HasUid(n)'
    <2>1. Key(n, Tracked(n), i)' = Key(n, Tracked(n), i)
      BY <1>5 DEF Key, Stage
    <2> QED
      BY <1>2, <1>3, <1>5, <1>11, <2>1 DEF HasUid
  <1>17. sbp'[n].active = sbp[n].active \/ Position(sbp[n])' = s + 1
    <2>1. CASE i + 1 = s
      BY <1>1, <1>4, <1>8, <2>1, PositionTyped
    <2>2. CASE i = s
      BY <1>9, <2>2
    <2> QED
      BY <1>10, <2>1, <2>2
  <1> QED
    BY <1>7, <1>13, <1>14, <1>15, <1>16, <1>17 DEF RolloutInv, Live

(* A step of an operation on a policy moves its rollout along.             *)
LEMMA OpStepsRollout ==
  ASSUME LeftAlone, TypeInv, ReadsHold, CopiesInv, SpecsInv, ItemsInv, RolloutsInv, OpSteps, NEW n \in SBPs
  PROVE  /\ RolloutInv(n)'
         /\ \/ sbp'[n] = sbp[n]
            \/ /\ sbp[n] # None
               /\ sbp'[n].active = sbp[n].active \/ Position(sbp[n])' = Position(sbp[n]) + 1
  <1>1. /\ WdsTypeOK /\ TableInv /\ EndIsSure /\ RolloutInv(n)
        /\ nextUid \in Nat /\ nextUid' \in Nat /\ nextUid <= nextUid'
    BY LeftAloneIs, ReadsMakeSure, OpStepsBpMoves DEF TypeInv, RolloutsInv, BpMoves
  <1> PICK p \in SBPs : op.sbp = p
    BY <1>1, OpStepsBusy
  <1>2. /\ op # None /\ op.pc # "return" /\ op' # None /\ op'.sbp = p
        /\ \A m \in SBPs : m # p => sbp'[m] = sbp[m]
        /\ OthersKept(p)
    BY <1>1, OpStepsBusy, OpStepsSame, ResolverAssumption
  <1>3. \/ Waits(p) \/ LeavesStage(p) \/ Deletes(p) \/ Deploys(p) \/ Refused(p)
        \/ ReadsPolicy(p) \/ Announces(p)
    BY <1>1, SureSteps
  <1>4. CASE n # p
    <2>1. \A name \in StageNames : bp'[<<n, name>>] = bp[<<n, name>>]
      BY <1>1, <1>3, <1>4
      DEF Waits, LeavesStage, Deletes, Deploys, Refused, ReadsPolicy, Announces, PreviousKey, ActiveKey, Key,
          WdsTypeOK, BPKeys
    <2>2. SameRollout(n)
      BY <1>1, <1>2, <1>4, <2>1, KeptIsSame DEF SameRollout, OthersKept
    <2>3. SameProgress(n)
      BY <1>2, <1>4, SameProgressIf DEF OpOn, StagingUp
    <2> QED
      BY <1>1, <1>2, <1>4, <2>2, <2>3, RolloutKept
  <1>5. CASE n = p
    <2>1. OpOn(n) /\ n = op.sbp
      BY <1>2, <1>5 DEF OpOn
    <2>2. CASE Waits(n) \/ ReadsPolicy(n)
      <3>1. UNCHANGED <<sbp, bp, nextUid, stagedBindingPolicies>> /\ Tracked(n)' = Tracked(n)
        BY <2>2 DEF Waits, ReadsPolicy, TableKept, Tracked
      <3>2. SameRollout(n)
        BY <1>1, <3>1, KeptIsSame DEF SameRollout
      <3>3. SameProgress(n)
        <4>1. CASE Waits(n)
          BY <1>5, <2>1, <4>1, SameProgressIf DEF Waits, OpAttempts, OpBecomes, StagingUp
        <4>2. CASE ReadsPolicy(n)
          BY <1>2, <1>5, <2>1, <4>2 DEF ReadsPolicy, OpBecomes, SameProgress, StagingUp, Deploying, Deleting, OpOn
        <4> QED
          BY <2>2, <4>1, <4>2
      <3> QED
        BY <1>1, <3>1, <3>2, <3>3, RolloutKept
    <2>3. CASE LeavesStage(n)
      BY <1>1, <1>2, <2>1, <2>3, LeavesRollout DEF LeavesStage
    <2>4. CASE Deletes(n)
      BY <1>1, <1>2, <2>1, <2>4, DeletesRollout DEF Deletes
    <2>5. CASE Deploys(n)
      BY <1>1, <1>2, <2>1, <2>5, DeploysRollout DEF Deploys
    <2>6. CASE Refused(n)
      BY <1>1, <1>2, <2>1, <2>6, RefusedRollout DEF Refused
    <2>7. CASE Announces(n)
      BY <1>1, <1>2, <2>1, <2>7, AnnouncesRollout, AtWork
    <2> QED
      BY <1>3, <1>5, <2>2, <2>3, <2>4, <2>5, <2>6, <2>7
  <1> QED
    BY <1>4, <1>5

LEMMA NextRollouts ==
  ASSUME LeftAlone, TypeInv, ReadsHold, CopiesInv, SpecsInv, ItemsInv, RolloutsInv, [Next]_vars
  PROVE  RolloutsInv'
  <1> SUFFICES ASSUME NEW n \in SBPs PROVE RolloutInv(n)'
    BY DEF RolloutsInv
  <1>1. RolloutInv(n) /\ TableInv
    BY DEF RolloutsInv, TypeInv
  <1>2. CASE Environment
    BY <1>2, UsersRollout
  <1>3. CASE Informers \/ (\E item \in delayed : Requeue(item)) \/ Restart \/ UNCHANGED vars
    <2>1. UNCHANGED <<sbp, bp, nextUid, stagedBindingPolicies, op>>
      BY <1>3 DEF Informers, DeliverPolicy, DeliverBinding, DeliverStatus, Requeue, Restart,
        vars, wdsVars, resolverVars
    <2> QED
      BY <1>1, <2>1, RolloutUntouched
  <1>4. ASSUME NEW w \in Workers, WorkerStep(w) PROVE RolloutInv(n)'
    <2>1. CASE (\E item \in dirty : Get(w, item)) \/ ReadLister(w)
      <3>1. UNCHANGED <<sbp, bp, nextUid, stagedBindingPolicies, op>>
        BY <2>1 DEF Get, ReadLister, wdsVars, resolverVars
      <3> QED
        BY <1>1, <3>1, RolloutUntouched
    <2>2. CASE Reconcile(w)
      BY <2>2, ReconcileRollout
    <2>3. CASE Finish(w)
      <3>1. op.pc = "return" /\ op # None /\ op' = None /\ UNCHANGED <<sbp, bp, nextUid, stagedBindingPolicies>>
        BY <2>3 DEF Finish, At, wdsVars
      <3>2. ~op.staging
        BY <1>1, <3>1 DEF TableInv, OpOK
      <3>3. SameProgress(n)
        BY <3>1, <3>2, SameProgressIf DEF StagingUp, OpOn
      <3>4. Tracked(n)' = Tracked(n) /\ nextUid \in Nat
        BY <3>1 DEF Tracked, TypeInv, WdsTypeOK, Uids
      <3>5. SameRollout(n)
        BY <1>1, <3>1, <3>4, KeptIsSame DEF SameRollout
      <3> QED
        BY <1>1, <3>3, <3>5, RolloutKept
    <2> QED
      BY <1>4, <2>1, <2>2, <2>3 DEF WorkerStep
  <1>5. CASE Resolve
    BY <1>5, OpStepsRollout DEF Resolve
  <1>6. CASE Crash \/ Panic
    <2>1. UNCHANGED <<sbp, bp>> /\ op' = None /\ Tracked(n)' = None
      BY <1>6, LoseMemoryParts DEF Crash, Panic, wdsVars
    <2>2. "crash" \in EventKinds \/ ~Deploying(n)
      BY <1>6 DEF Crash, Event, Panic, Panics, At, Deploying
    <2>3. NoneAhead(n)'
      BY <1>1, <2>1, <2>2 DEF RolloutInv, NoneAhead, StageDeployed, Deployed
    <2>4. DeployedNear(n)'
      BY <1>1, <2>1 DEF RolloutInv, DeployedNear, StageDeployed, Deployed
    <2> QED
      BY <2>1, <2>3, <2>4 DEF RolloutInv, IndexOK, Live, Deploying, Deleting, OpOn
  <1> QED
    BY <1>2, <1>3, <1>4, <1>5, <1>6 DEF Next

-----------------------------------------------------------------------------
LEMMA InitStages ==
  ASSUME Init
  PROVE  ReadsHold /\ StageInv
  <1>1. /\ \A n \in SBPs : sbp[n] = None /\ sbpCache[n] = None /\ Tracked(n) = None
        /\ \A n \in SBPs, name \in StageNames : ~Deployed(n, name)
        /\ op = None /\ dirty = {} /\ delayed = {}
        /\ \A w \in Workers : worker[w].pc = "idle"
    BY DEF Init, WdsInit, ResolverStart, Tracked, Deployed, BPKeys, IdleWorker, Busy
  <1>2. ReadsHold
    BY <1>1 DEF ReadsHold
  <1>3. CopiesInv /\ UidsDiffer /\ SpecsInv
    BY <1>1 DEF CopiesInv, CopyOf, UidsDiffer, SpecsInv, AttemptOK
  <1>4. ItemsInv
    BY <1>1 DEF ItemsInv, ItemInv, OnePlace, Noting, Pending, Holds, HolderOK, NotesFirst, OpOn, Unnoted
  <1>5. RolloutsInv
    BY <1>1 DEF RolloutsInv, RolloutInv, DeployedNear, NoneAhead, IndexOK, Live, Deploying, Deleting, OpOn
  <1> QED
    BY <1>2, <1>3, <1>4, <1>5 DEF StageInv

LEMMA StagesInvariant ==
  ASSUME LeftAlone, DistinctNames
  PROVE  Spec => [](TypeInv /\ ReadsHold /\ QueueInv /\ StageInv)
  <1>1. Spec => [](TypeInv /\ QueueInv)
    BY LeftAloneIs, QueueInvariant
  <1>2. Init => ReadsHold /\ StageInv
    BY InitStages
  <1>3. ASSUME TypeInv, QueueInv, ReadsHold, StageInv, [Next]_vars PROVE ReadsHold' /\ StageInv'
    <2>1. /\ ReadsHold' /\ CopiesInv' /\ UidsDiffer' /\ SpecsInv'
      BY <1>3, LeftAloneIs, NextReads, NextCopies, NextUidsDiffer, NextSpecs DEF StageInv, QueueInv
    <2>2. ItemsInv' /\ RolloutsInv'
      BY <1>3, NextItems, NextRollouts DEF StageInv, QueueInv
    <2> QED
      BY <2>1, <2>2 DEF StageInv
  <1> QED
    BY <1>1, <1>2, <1>3, PTL DEF Spec

-----------------------------------------------------------------------------
LEMMA PositionsDiffer ==
  ASSUME TypeInv, StageInv, NEW n \in SBPs, "crash" \notin EventKinds,
         NEW name1 \in StageNames, NEW name2 \in StageNames, Deployed(n, name1), Deployed(n, name2)
  PROVE  name1 = name2
  <1> DEFINE s == Position(sbp[n])
  <1>1. RolloutInv(n) /\ WdsTypeOK
    BY DEF StageInv, RolloutsInv, TypeInv
  <1>2. sbp[n] # None
    BY <1>1 DEF RolloutInv, DeployedNear
  <1>3. PICK j1 \in {s, s + 1} : StageDeployed(n, j1) /\ sbp[n].stages[j1].name = name1
    BY <1>1 DEF RolloutInv, DeployedNear
  <1>4. PICK j2 \in {s, s + 1} : StageDeployed(n, j2) /\ sbp[n].stages[j2].name = name2
    BY <1>1 DEF RolloutInv, DeployedNear
  <1>5. s \in Nat
    BY <1>1, <1>2, StageNameTyped, PositionTyped
  <1>6. ~(StageDeployed(n, s) /\ StageDeployed(n, s + 1))
    <2> SUFFICES ASSUME StageDeployed(n, s), StageDeployed(n, s + 1) PROVE FALSE
      OBVIOUS
    <2>1. Deploying(n) /\ Tracked(n).activeIndex = s
      BY <1>1, <1>2 DEF RolloutInv, NoneAhead
    <2>2. Tracked(n) # None /\ op.pc # "delete"
      BY <2>1, OnTracked DEF Deploying
    <2>3. s # 0
      BY DEF StageDeployed
    <2> QED
      BY <1>1, <1>5, <2>1, <2>2, <2>3 DEF RolloutInv, IndexOK
  <1> QED
    BY <1>3, <1>4, <1>5, <1>6

(* As long as users leave their policies alone, no API call fails and the  *)
(* process is not killed, a policy never has two stages deployed at once,  *)
(* whatever the interleaving of events, workers and API calls, and even if *)
(* the process panics and restarts.                                        *)
THEOREM OneStageAtATime ==
  ASSUME LeftAlone, DistinctNames, "crash" \notin EventKinds
  PROVE  Spec => []AtMostOneDeployed
  <1>1. Spec => [](TypeInv /\ ReadsHold /\ QueueInv /\ StageInv)
    BY StagesInvariant
  <1>2. ASSUME TypeInv, StageInv PROVE AtMostOneDeployed
    <2> SUFFICES ASSUME NEW k1 \in BPKeys, NEW k2 \in BPKeys,
                        bp[k1] # None, bp[k2] # None, bp[k1].owner = bp[k2].owner
                 PROVE  k1 = k2
      BY DEF AtMostOneDeployed
    <2>1. PICK n \in SBPs, name1 \in StageNames : k1 = <<n, name1>>
      BY DEF BPKeys
    <2>2. PICK m \in SBPs, name2 \in StageNames : k2 = <<m, name2>>
      BY DEF BPKeys
    <2>3. Deployed(n, name1) /\ Deployed(m, name2)
      BY <2>1, <2>2 DEF Deployed
    <2>4. sbp[n] # None /\ sbp[m] # None /\ bp[k1].owner = sbp[n].uid /\ bp[k2].owner = sbp[m].uid
      BY <1>2, <2>1, <2>2, <2>3 DEF StageInv, RolloutsInv, RolloutInv, DeployedNear
    <2>5. n = m
      BY <1>2, <2>4 DEF StageInv, UidsDiffer
    <2>6. name1 = name2
      BY <1>2, <2>3, <2>5, PositionsDiffer
    <2> QED
      BY <2>1, <2>2, <2>5, <2>6
  <1> QED
    BY <1>1, <1>2, PTL

(* A stage the status has left behind is not deployed any more and none is *)
(* deployed further ahead than the one that follows it: whatever crashes,  *)
(* panics and races there are, as long as users leave their policies alone *)
(* and no API call fails.                                                  *)
THEOREM DeployedStaysNear ==
  ASSUME LeftAlone, DistinctNames
  PROVE  Spec => []DeployedNearStatus
  <1>1. Spec => [](TypeInv /\ ReadsHold /\ QueueInv /\ StageInv)
    BY StagesInvariant
  <1>2. ASSUME TypeInv, StageInv PROVE DeployedNearStatus
    <2> SUFFICES ASSUME NEW n \in SBPs, sbp[n] # None, NEW i \in 1..Len(sbp[n].stages),
                        Deployed(n, sbp[n].stages[i].name)
                 PROVE  i \in {Position(sbp[n]), Position(sbp[n]) + 1}
      BY DEF DeployedNearStatus
    <2>1. sbp[n].stages[i].name \in StageNames /\ Distinct(sbp[n].stages)
      BY <1>2, StageNameTyped DEF TypeInv, StageInv, CopiesInv
    <2>2. PICK j \in {Position(sbp[n]), Position(sbp[n]) + 1} :
             StageDeployed(n, j) /\ sbp[n].stages[j].name = sbp[n].stages[i].name
      BY <1>2, <2>1 DEF StageInv, RolloutsInv, RolloutInv, DeployedNear
    <2>3. i = j
      BY <2>1, <2>2 DEF Distinct, StageDeployed
    <2> QED
      BY <2>3
  <1> QED
    BY <1>1, <1>2, PTL

(* The status users read moves to the next stage or stays: it skips none   *)
(* and never goes back, whatever crashes, panics and races there are, as   *)
(* long as users leave their policies alone and no API call fails.         *)
THEOREM StatusMovesInOrder ==
  ASSUME LeftAlone, DistinctNames
  PROVE  Spec => StatusMovesOneStage
  <1>1. Spec => [](TypeInv /\ ReadsHold /\ QueueInv /\ StageInv)
    BY StagesInvariant
  <1> DEFINE InOrder == \A n \in SBPs :
               sbp[n] # None /\ sbp'[n] # None /\ sbp[n].uid = sbp'[n].uid =>
                   \/ sbp'[n].active = sbp[n].active
                   \/ Position(sbp'[n]) = Position(sbp[n]) + 1
  <1>2. ASSUME TypeInv, ReadsHold, StageInv, [Next]_vars PROVE InOrder
    <2> SUFFICES ASSUME NEW n \in SBPs, sbp[n] # None, sbp'[n] # sbp[n]
                 PROVE  \/ sbp'[n].active = sbp[n].active
                        \/ Position(sbp'[n]) = Position(sbp[n]) + 1
      OBVIOUS
    <2>1. WdsTypeOK /\ Undisturbed
      BY <1>2, LeftAloneIs DEF TypeInv
    <2>2. ~Environment
      BY <2>1, UsersKeepPolicies DEF Environment
    <2>3. OpSteps
      BY <1>2, <2>2 DEF Next, Informers, DeliverPolicy, DeliverBinding, DeliverStatus, WorkerStep, Get,
        ReadLister, Reconcile, Finish, Resolve, Requeue, Crash, Panic, Restart, vars, wdsVars
    <2> QED
      BY <1>2, <2>3, OpStepsRollout DEF StageInv
  <1> HIDE DEF InOrder
  <1>3. TypeInv /\ ReadsHold /\ QueueInv /\ StageInv /\ [Next]_vars => [InOrder]_vars
    BY <1>2
  <1>4. Spec => [][InOrder]_vars
    BY <1>1, <1>3, PTL DEF Spec
  <1> QED
    BY <1>4 DEF StatusMovesOneStage, InOrder

(* Once every event is processed, the status and the table agree on the    *)
(* active stage of every policy, and it is deployed under the UID the      *)
(* table has, or a process that died has left the next one in the way.     *)
(* nextUid <= MaxUid says that the API server would still accept a Create: *)
(* the bound on UIDs is the model's.                                       *)
THEOREM QuietPoliciesAreDeployed ==
  ASSUME LeftAlone, DistinctNames
  PROVE  Spec => [](nextUid <= MaxUid => SettledDeployed)
  <1>1. Spec => [](TypeInv /\ ReadsHold /\ QueueInv /\ StageInv)
    BY StagesInvariant
  <1>2. ASSUME TypeInv, QueueInv, StageInv, nextUid <= MaxUid, Quiet, NEW n \in SBPs, sbp[n] # None
        PROVE  LET e == Tracked(n)
                   position == Position(sbp[n])
               IN  /\ e # None
                   /\ e.activeIndex + 1 = position
                   /\ \/ /\ Deployed(n, sbp[n].active)
                         /\ bp[<<n, sbp[n].active>>].uid = e.activeBindingPolicyUID
                      \/ /\ "crash" \in EventKinds
                         /\ position < Len(e.stages)
                         /\ Deployed(n, e.stages[position + 1].name)
    <2> DEFINE e == Tracked(n)
               s == Position(sbp[n])
    <2>1. e # None /\ e.stages = sbp[n].stages /\ e \in Entries
      <3>1. SameVersion(e, sbp[n])
        BY <1>2, QuietTracks
      <3>2. e \in Entries \cup {None}
        BY <1>2 DEF TypeInv, TableInv, Tracked
      <3> QED
        BY <1>2, <3>1, <3>2 DEF SameVersion
    <2>2. ItemInv(n) /\ RolloutInv(n)
      BY <1>2 DEF StageInv, ItemsInv, RolloutsInv
    <2>3. ~Noting(n) /\ ~StagingUp(n) /\ ~Deploying(n)
      BY <1>2 DEF Quiet, Noting, Holds, StagingUp, Deploying, OpOn
    <2>4. ~Unnoted(n)
      BY <2>1, <2>2, <2>3 DEF ItemInv
    <2>5. e.activeIndex + 1 = s
      BY <2>1, <2>2, <2>3, <2>4 DEF RolloutInv, IndexOK
    <2>6. e.activeIndex \in Nat /\ Len(sbp[n].stages) \in Nat
      BY <1>2, <2>1, StageNameTyped DEF Entries, TypeInv
    <2>7. CASE HasUid(n)
      <3>1. sbp[n].active = sbp[n].stages[s].name
        BY <1>2, <2>5, <2>6, PositionTyped, StageNameTyped DEF TypeInv
      <3> QED
        BY <2>1, <2>5, <2>7, <3>1 DEF HasUid, StageDeployed, Key, Stage
    <2>8. CASE StageDeployed(n, e.activeIndex + 2)
      <3>1. e.activeIndex + 2 = s + 1
        BY <2>5, <2>6
      <3>2. "crash" \in EventKinds
        BY <1>2, <2>2, <2>3, <2>8, <3>1 DEF RolloutInv, NoneAhead
      <3> QED
        BY <2>1, <2>5, <2>6, <2>8, <3>1, <3>2 DEF StageDeployed
    <2> QED
      BY <1>2, <2>1, <2>2, <2>3, <2>4, <2>5, <2>7, <2>8 DEF RolloutInv, Live
  <1>3. TypeInv /\ QueueInv /\ StageInv => (nextUid <= MaxUid => SettledDeployed)
    BY <1>2 DEF SettledDeployed
  <1> QED
    BY <1>1, <1>3, PTL
=============================================================================
