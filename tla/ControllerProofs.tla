--------------------------- MODULE ControllerProofs ---------------------------
(***************************************************************************)
(* Proofs about the controller for every value of its constants: its state *)
(* stays within its types, and it does not panic when every policy's last  *)
(* stage is unconditional.                                                 *)
(***************************************************************************)
EXTENDS ControllerProps, WellFoundedInduction, TLAPS

-----------------------------------------------------------------------------
(* An operation in progress.                                               *)
OpOK ==
    op # None =>
        /\ op.pc # "return" => Entry # None
        /\ op.staging => op.pc \in {"delete", "create", "get", "update"}
        /\ op.staging => Entry.activeIndex > 0
        /\ op.pc \in {"get", "update", "attempt"} => Entry.activeIndex < Len(Entry.stages)
        /\ op.pc = "update" => op.got # None

(* A worker has an item, and the object it read is of the item's kind.     *)
Found(item) ==
    IF item[1] = "sbp" THEN SBPObjects \cup {None}
    ELSE IF item[1] = "bdg" THEN BindingObjects
    ELSE CombinedStatuses

WorkerOK(w) ==
    /\ worker[w].pc # "idle" => worker[w].item # None
    /\ worker[w].pc = "dequeued" => worker[w].obj = None
    /\ worker[w].pc = "read" => worker[w].obj \in Found(worker[w].item)

-----------------------------------------------------------------------------
(* The API server's objects.                                               *)

LEMMA WdsInitTyped == WdsInit => WdsTypeOK
  BY DEF WdsInit, WdsTypeOK, Uids, NoUid

LEMMA UserCreatesTyped ==
  ASSUME WdsTypeOK, NEW n \in SBPs, NEW stages \in StageLists, UserCreates(n, stages)
  PROVE  WdsTypeOK'
  <1>1. stages \in Seq(Stages)
    BY WdsAssumption
  <1>2. [uid |-> nextUid, gen |-> 1, stages |-> stages, active |-> None] \in SBPObjects
    BY <1>1 DEF WdsTypeOK, SBPObjects
  <1> QED
    BY <1>2 DEF UserCreates, Event, FreshUid, WdsTypeOK, Uids, NoUid

LEMMA UserEditsTyped ==
  ASSUME WdsTypeOK, NEW n \in SBPs, NEW stages \in StageLists, UserEdits(n, stages)
  PROVE  WdsTypeOK'
  <1> DEFINE restaged == [sbp[n] EXCEPT !.stages = stages]
             edited == [restaged EXCEPT !.gen = @ + 1]
  <1>1. sbp[n] \in SBPObjects
    BY DEF UserEdits, WdsTypeOK
  <1>2. restaged \in SBPObjects
    BY <1>1, WdsAssumption DEF SBPObjects
  <1>3. edited \in SBPObjects
    <2>1. \A obj \in SBPObjects : [obj EXCEPT !.gen = @ + 1] \in SBPObjects
      BY DEF SBPObjects
    <2> QED
      BY <1>2, <2>1
  <1>4. sbp' = [sbp EXCEPT ![n].stages = stages, ![n].gen = @ + 1]
    BY DEF UserEdits
  <1>5. sbp' = [sbp EXCEPT ![n] = edited]
    BY <1>4
  <1> QED
    BY <1>3, <1>5 DEF UserEdits, Event, WdsTypeOK

LEMMA KsRebindsTyped ==
  ASSUME WdsTypeOK, NEW k \in BPKeys, KsRebinds(k)
  PROVE  WdsTypeOK'
  <1> DEFINE refilled == [bdg[k] EXCEPT !.workload = objs]
             rebound == [refilled EXCEPT !.gen = @ + 1]
  <1>1. bdg[k] \in BindingObjects
    BY DEF KsRebinds, Current, WdsTypeOK
  <1>2. refilled \in BindingObjects
    BY <1>1 DEF BindingObjects, WdsTypeOK
  <1>3. rebound \in BindingObjects
    <2>1. \A binding \in BindingObjects : [binding EXCEPT !.gen = @ + 1] \in BindingObjects
      BY DEF BindingObjects
    <2> QED
      BY <1>2, <2>1
  <1>4. bdg' = [bdg EXCEPT ![k].workload = objs, ![k].gen = @ + 1]
    BY DEF KsRebinds
  <1>5. bdg' = [bdg EXCEPT ![k] = rebound]
    BY <1>4
  <1> QED
    BY <1>3, <1>5 DEF KsRebinds, WdsTypeOK

LEMMA KsReportsTyped ==
  ASSUME WdsTypeOK, NEW k \in BPKeys, NEW o \in Objects, NEW sat \in BOOLEAN, KsReports(k, o, sat)
  PROVE  WdsTypeOK'
  <1>1. bdg[k] \in BindingObjects
    BY DEF KsReports, WdsTypeOK
  <1>2. [label |-> k, obj |-> o, bp |-> bdg[k].bp, sat |-> sat] \in CombinedStatuses
    BY <1>1 DEF CombinedStatuses, BindingObjects
  <1>3. events' \in Nat
    BY DEF KsReports, Event, WdsTypeOK
  <1>4. cs' \in SUBSET CombinedStatuses
    BY <1>2 DEF KsReports, WdsTypeOK
  <1> QED
    BY <1>3, <1>4 DEF KsReports, WdsTypeOK

LEMMA WdsNextTyped ==
  ASSUME WdsTypeOK, WdsNext
  PROVE  WdsTypeOK'
  <1>1. CASE \E n \in SBPs, stages \in StageLists : UserCreates(n, stages) \/ UserEdits(n, stages)
    BY <1>1, UserCreatesTyped, UserEditsTyped
  <1>2. CASE \E n \in SBPs : UserDeletes(n)
    BY <1>2 DEF UserDeletes, Event, WdsTypeOK
  <1>3. CASE \E o \in Objects : WorkloadChanges(o)
    BY <1>3 DEF WorkloadChanges, Event, WdsTypeOK
  <1>4. ASSUME NEW k \in BPKeys, CollectBP(k) \/ KubeStellar(k)
        PROVE  WdsTypeOK'
    <2>1. CASE CollectBP(k)
      BY <2>1 DEF CollectBP, WdsTypeOK
    <2>2. CASE KsBinds(k)
      <3>1. [bp |-> bp[k].uid, gen |-> 1, workload |-> objs] \in BindingObjects
        BY <2>2 DEF KsBinds, WdsTypeOK, BPObjects, BindingObjects
      <3> QED
        BY <2>2, <3>1 DEF KsBinds, WdsTypeOK
    <2>3. CASE KsRebinds(k)
      BY <2>3, KsRebindsTyped
    <2>4. CASE KsUnbinds(k)
      BY <2>4 DEF KsUnbinds, WdsTypeOK
    <2>5. CASE \E o \in Objects, sat \in BOOLEAN : KsReports(k, o, sat)
      BY <2>5, KsReportsTyped
    <2>6. CASE \E c \in cs : c.label = k /\ KsRetracts(c)
      BY <2>6 DEF KsRetracts, WdsTypeOK
    <2> QED
      BY <1>4, <2>1, <2>2, <2>3, <2>4, <2>5, <2>6 DEF KubeStellar
  <1> QED
    BY <1>1, <1>2, <1>3, <1>4 DEF WdsNext

-----------------------------------------------------------------------------
(* The operators of the resolver.                                          *)

LEMMA LeastNatural ==
  ASSUME NEW T, T \subseteq Nat, T # {}
  PROVE  \E i \in T : \A j \in T : i <= j
  <1> DEFINE R == {ss \in Nat \X Nat : ss[1] < ss[2]}
  <1>1. IsWellFoundedOn(R, Nat)
    BY NatLessThanWellFounded DEF OpToRel
  <1>2. PICK i \in T : \A j \in T : ~ (<<j, i>> \in R)
    <2> HIDE DEF R
    <2> QED BY <1>1, WFMin
  <1>3. ASSUME NEW j \in T PROVE i <= j
    <2>1. ~ (<<j, i>> \in R)
      BY <1>2
    <2>2. i \in Nat /\ j \in Nat
      OBVIOUS
    <2>3. ~ (j < i)
      BY <2>1, <2>2
    <2> QED
      BY <2>2, <2>3
  <1> QED
    BY <1>3

LEMMA ActiveStageTyped ==
  ASSUME NEW obj \in SBPObjects
  PROVE  /\ ActiveStage(obj) \in Nat
         /\ obj.stages # <<>> => ActiveStage(obj) < Len(obj.stages)
  <1> DEFINE named == {i \in 0..(Len(obj.stages) - 1) : obj.stages[i + 1].name = obj.active}
  <1>1. Len(obj.stages) \in Nat /\ obj.stages \in Seq(Stages)
    BY DEF SBPObjects
  <1>2. CASE named = {}
    BY <1>1, <1>2 DEF ActiveStage
  <1>3. CASE named # {}
    <2>1. named \subseteq Nat
      BY <1>1
    <2>2. \E i \in named : \A j \in named : i <= j
      BY <1>3, <2>1, LeastNatural
    <2>3. ActiveStage(obj) \in named
      BY <1>3, <2>2 DEF ActiveStage
    <2> QED
      BY <1>1, <2>3
  <1> QED
    BY <1>2, <1>3

LEMMA OpAtTyped ==
  ASSUME NEW n \in SBPs, NEW pc \in {"delete", "create", "attempt", "return"}, NEW staging \in BOOLEAN
  PROVE  OpAt(n, pc, staging) \in Ops
  BY DEF OpAt, Ops

LEMMA AttemptTyped ==
  ASSUME NEW n \in SBPs, NEW e \in Entries
  PROVE  /\ Attempt(n, e) \in Ops
         /\ Attempt(n, e).sbp = n
         /\ ~Attempt(n, e).staging
         /\ Attempt(n, e).pc \in {"return", "attempt"}
         /\ Attempt(n, e).pc = "attempt" =>
               e.activeIndex < Len(e.stages) /\ Stage(e, e.activeIndex).cond
  <1> DEFINE filtered == FilterWorkload(e.bindingSpec, Stage(e, e.activeIndex))
             looping == [OpAt(n, "attempt", FALSE) EXCEPT !.todo = filtered]
  <1>1. filtered \in SUBSET Objects
    BY DEF FilterWorkload, Entries
  <1>2. /\ looping \in Ops
        /\ looping.sbp = n
        /\ looping.pc = "attempt"
        /\ ~looping.staging
    <2> HIDE DEF filtered
    <2>1. OpAt(n, "attempt", FALSE) \in Ops
      BY OpAtTyped
    <2>2. \A x \in Ops, todo \in SUBSET Objects :
             LET y == [x EXCEPT !.todo = todo]
             IN  y \in Ops /\ y.sbp = x.sbp /\ y.pc = x.pc /\ y.staging = x.staging
      BY DEF Ops
    <2> QED
      BY <1>1, <2>1, <2>2 DEF OpAt
  <1>3. e.activeIndex \in Nat /\ Len(e.stages) \in Nat
    BY DEF Entries
  <1>4. Attempt(n, e) = IF e.activeIndex >= Len(e.stages) THEN Returns(n)
                        ELSE IF ~Stage(e, e.activeIndex).cond \/ filtered = {} THEN Returns(n)
                        ELSE looping
    BY DEF Attempt
  <1> HIDE DEF looping
  <1>5. CASE Attempt(n, e) = Returns(n)
    <2> HIDE DEF filtered
    <2>1. Returns(n) \in Ops
      BY OpAtTyped DEF Returns
    <2>2. Returns(n).sbp = n /\ Returns(n).pc = "return" /\ ~Returns(n).staging
      BY DEF Returns, OpAt
    <2> QED
      BY <1>5, <2>1, <2>2
  <1>6. CASE Attempt(n, e) # Returns(n)
    <2>1. ~(e.activeIndex >= Len(e.stages)) /\ Stage(e, e.activeIndex).cond /\ Attempt(n, e) = looping
      BY <1>4, <1>6
    <2> QED
      BY <1>2, <1>3, <2>1
  <1> QED
    BY <1>5, <1>6

LEMMA EnsureActiveStageTyped ==
  ASSUME NEW n \in SBPs, NEW i \in Nat, NEW staging \in BOOLEAN
  PROVE  /\ EnsureActiveStage(n, i, staging) \in Ops
         /\ EnsureActiveStage(n, i, staging).sbp = n
         /\ EnsureActiveStage(n, i, staging).staging = staging
         /\ EnsureActiveStage(n, i, staging).pc \in {"delete", "create"}
         /\ EnsureActiveStage(n, i, staging).pc = "delete" => i > 0
  <1>1. CASE i > 0
    BY <1>1, OpAtTyped DEF EnsureActiveStage, OpAt
  <1>2. CASE ~(i > 0)
    BY <1>2, OpAtTyped DEF EnsureActiveStage, OpAt
  <1> QED
    BY <1>1, <1>2

-----------------------------------------------------------------------------
(* The calls that take the mutex.                                          *)

TableInv ==
    /\ stagedBindingPolicies \in [SBPs -> Entries \cup {None}]
    /\ op \in Ops \cup {None}
    /\ OpOK

LEMMA NotedTyped ==
  ASSUME TableInv, NEW n \in SBPs, NEW obj \in SBPObjects, NoteStagedBindingPolicy(n, obj)
  PROVE  TableInv'
  <1> DEFINE active == ActiveStage(obj)
             entry == [uid |-> obj.uid, stages |-> obj.stages, activeIndex |-> active,
                       activeBindingPolicyUID |-> NoUid, bindingSpec |-> {}]
  <1>1. active \in Nat
    BY ActiveStageTyped
  <1>2. obj.uid \in Uids /\ obj.stages \in Seq(Stages)
    BY DEF SBPObjects
  <1> HIDE DEF active
  <1>3. entry \in Entries
    BY <1>1, <1>2 DEF Entries, NoUid
  <1>4. stagedBindingPolicies' = [stagedBindingPolicies EXCEPT ![n] = entry]
    BY DEF NoteStagedBindingPolicy, active
  <1>5. op' = EnsureActiveStage(n, active, FALSE)
    BY DEF NoteStagedBindingPolicy, active
  <1>6. stagedBindingPolicies' \in [SBPs -> Entries \cup {None}] /\ stagedBindingPolicies'[n] = entry
    BY <1>3, <1>4 DEF TableInv
  <1>7. /\ op' \in Ops /\ op'.sbp = n /\ ~op'.staging /\ op'.pc \in {"delete", "create"}
    BY <1>1, <1>5, EnsureActiveStageTyped
  <1>8. entry # None
    BY <1>3, ResolverAssumption
  <1> QED
    BY <1>6, <1>7, <1>8 DEF TableInv, OpOK, Entry

LEMMA EntryOfTyped ==
  ASSUME TableInv, NEW key \in BPKeys
  PROVE  /\ key[1] \in SBPs
         /\ EntryOf(key) \in Entries \cup {None}
         /\ EntryOf(key) # None => /\ OwnerOf[key] \in SBPs
                                  /\ EntryOf(key) = stagedBindingPolicies[OwnerOf[key]]
  <1>1. key[1] \in SBPs
    BY DEF BPKeys
  <1>2. OwnerOf[key] \in SBPs \cup {None}
    BY OwnerAssumption
  <1> QED
    BY <1>1, <1>2 DEF EntryOf, TableInv

LEMMA NoteBindingTyped ==
  ASSUME TableInv, NEW key \in BPKeys, NEW binding \in BindingObjects, NoteBinding(key, binding)
  PROVE  TableInv'
  <1> DEFINE n == OwnerOf[key]
             e == EntryOf(key)
             noted == [e EXCEPT !.bindingSpec = binding.workload]
  <1>1. key[1] \in SBPs /\ (e # None => n \in SBPs /\ e \in Entries)
    BY EntryOfTyped
  <1>2. CASE ~IsActiveBinding(e, binding)
    <2>1. op' = Returns(key[1]) /\ UNCHANGED stagedBindingPolicies
      BY <1>2 DEF NoteBinding
    <2>2. Returns(key[1]) \in Ops /\ Returns(key[1]).pc = "return" /\ ~Returns(key[1]).staging
      BY <1>1, OpAtTyped DEF Returns, OpAt
    <2> QED
      BY <2>1, <2>2 DEF TableInv, OpOK
  <1>3. CASE IsActiveBinding(e, binding)
    <2>1. n \in SBPs /\ e \in Entries
      BY <1>1, <1>3 DEF IsActiveBinding
    <2>2. binding.workload \in SUBSET Objects
      BY DEF BindingObjects
    <2>3. noted \in Entries
      BY <2>1, <2>2 DEF Entries
    <2>4. /\ stagedBindingPolicies' = [stagedBindingPolicies EXCEPT ![n] = noted]
          /\ op' = Attempt(n, noted)
      BY <1>3 DEF NoteBinding
    <2> HIDE DEF noted
    <2>5. stagedBindingPolicies' \in [SBPs -> Entries \cup {None}] /\ stagedBindingPolicies'[n] = noted
      BY <2>1, <2>3, <2>4 DEF TableInv
    <2>6. noted # None
      BY <2>3, ResolverAssumption
    <2> QED
      BY <2>1, <2>3, <2>4, <2>5, <2>6, AttemptTyped DEF TableInv, OpOK, Entry
  <1> QED
    BY <1>2, <1>3

LEMMA NoteCombinedStatusTyped ==
  ASSUME TableInv, NEW status \in CombinedStatuses, NoteCombinedStatus(status)
  PROVE  TableInv'
  <1> DEFINE key == status.label
             n == OwnerOf[key]
             e == EntryOf(key)
  <1>0. key \in BPKeys
    BY DEF CombinedStatuses
  <1>1. /\ key[1] \in SBPs
        /\ e # None => n \in SBPs /\ e \in Entries /\ e = stagedBindingPolicies[n]
    BY <1>0, EntryOfTyped
  <1>2. UNCHANGED stagedBindingPolicies
    BY DEF NoteCombinedStatus
  <1>3. CASE e = None
    <2>1. op' = Returns(key[1])
      BY <1>3 DEF NoteCombinedStatus
    <2>2. Returns(key[1]) \in Ops /\ Returns(key[1]).pc = "return" /\ ~Returns(key[1]).staging
      BY <1>1, OpAtTyped DEF Returns, OpAt
    <2> QED
      BY <1>2, <2>1, <2>2 DEF TableInv, OpOK
  <1>4. CASE e # None
    <2>1. op' = Attempt(n, e)
      BY <1>4 DEF NoteCombinedStatus
    <2>2. n \in SBPs /\ e \in Entries /\ e = stagedBindingPolicies[n]
      BY <1>1, <1>4
    <2> HIDE DEF n, e
    <2> QED
      BY <1>2, <1>4, <2>1, <2>2, AttemptTyped DEF TableInv, OpOK, Entry
  <1> QED
    BY <1>3, <1>4

-----------------------------------------------------------------------------
(* The steps of an operation in progress.                                  *)

LEMMA InProgressTyped ==
  ASSUME TableInv, op # None, op.pc # "return"
  PROVE  /\ op \in Ops
         /\ op.sbp \in SBPs
         /\ op.staging \in BOOLEAN
         /\ Entry \in Entries
         /\ Entry.activeIndex \in Nat
         /\ Len(Entry.stages) \in Nat
         /\ Entry.stages \in Seq(Stages)
  <1>1. op \in Ops /\ op.sbp \in SBPs /\ op.staging \in BOOLEAN
    BY DEF TableInv, Ops
  <1>2. Entry \in Entries
    BY <1>1 DEF TableInv, OpOK, Entry
  <1> QED
    BY <1>1, <1>2 DEF Entries

LEMMA FailTyped ==
  ASSUME TableInv, op # None, op.pc # "return", Fail
  PROVE  TableInv'
  <1>1. op' \in Ops /\ op'.pc = "return" /\ ~op'.staging
    <2>1. Returns(op.sbp) \in Ops
      BY InProgressTyped, OpAtTyped DEF Returns
    <2>2. \A x \in Ops, err \in BOOLEAN :
             LET y == [x EXCEPT !.err = err]
             IN  y \in Ops /\ y.pc = x.pc /\ y.staging = x.staging
      BY DEF Ops
    <2>3. (~op.staging) \in BOOLEAN
      BY Zenon
    <2> QED
      BY <2>1, <2>2, <2>3 DEF Fail, Returns, OpAt
  <1>2. stagedBindingPolicies' \in [SBPs -> Entries \cup {None}]
    <2>1. CASE op.staging
      <3> DEFINE reverted == [Entry EXCEPT !.activeIndex = @ - 1]
      <3>1. Entry.activeIndex - 1 \in Nat
        BY <2>1, InProgressTyped DEF TableInv, OpOK
      <3>2. reverted \in Entries
        BY <3>1, InProgressTyped DEF Entries
      <3>3. stagedBindingPolicies' = [stagedBindingPolicies EXCEPT ![op.sbp] = reverted]
        BY <2>1 DEF Fail, Entry
      <3> QED
        BY <3>2, <3>3, InProgressTyped DEF TableInv
    <2>2. CASE ~op.staging
      BY <2>2 DEF Fail, TableInv
    <2> QED
      BY <2>1, <2>2
  <1> QED
    BY <1>1, <1>2 DEF TableInv, OpOK

LEMMA CheckObjectTyped ==
  ASSUME TableInv, NEW o \in Objects, CheckObject(o)
  PROVE  TableInv'
  <1>1. op # None /\ op.pc = "attempt"
    BY DEF CheckObject, At
  <1>2. ASSUME op' = Returns(op.sbp), UNCHANGED stagedBindingPolicies
        PROVE  op' \in Ops /\ OpOK' /\ stagedBindingPolicies' \in [SBPs -> Entries \cup {None}]
    <2>1. Returns(op.sbp) \in Ops /\ Returns(op.sbp).pc = "return" /\ ~Returns(op.sbp).staging
      BY <1>1, InProgressTyped, OpAtTyped DEF Returns, OpAt
    <2> QED
      BY <1>2, <2>1 DEF OpOK, TableInv
  <1>3. ASSUME op' = [op EXCEPT !.todo = op.todo \ {o}], UNCHANGED stagedBindingPolicies
        PROVE  op' \in Ops /\ OpOK' /\ stagedBindingPolicies' \in [SBPs -> Entries \cup {None}]
    <2>1. op' \in Ops /\ op'.pc = op.pc /\ op'.staging = op.staging /\ op'.sbp = op.sbp
      BY <1>1, <1>3, InProgressTyped DEF Ops
    <2> QED
      BY <1>1, <1>3, <2>1 DEF OpOK, TableInv, Entry
  <1>4. ASSUME stagedBindingPolicies' = [stagedBindingPolicies EXCEPT ![op.sbp].activeIndex = @ + 1],
               op' = EnsureActiveStage(op.sbp, Entry.activeIndex + 1, TRUE)
        PROVE  op' \in Ops /\ OpOK' /\ stagedBindingPolicies' \in [SBPs -> Entries \cup {None}]
    <2> DEFINE next == [Entry EXCEPT !.activeIndex = @ + 1]
    <2>1. next \in Entries /\ next.activeIndex = Entry.activeIndex + 1
      BY <1>1, InProgressTyped DEF Entries
    <2>2. stagedBindingPolicies' = [stagedBindingPolicies EXCEPT ![op.sbp] = next]
      BY <1>4 DEF Entry
    <2> HIDE DEF next
    <2>3. stagedBindingPolicies' \in [SBPs -> Entries \cup {None}] /\ stagedBindingPolicies'[op.sbp] = next
      BY <1>1, <2>1, <2>2, InProgressTyped DEF TableInv
    <2>4. Entry.activeIndex + 1 \in Nat /\ Entry.activeIndex + 1 > 0
      BY <1>1, InProgressTyped
    <2>5. op' \in Ops /\ op'.sbp = op.sbp /\ op'.pc \in {"delete", "create"}
      BY <1>1, <1>4, <2>4, InProgressTyped, EnsureActiveStageTyped
    <2>6. next # None
      BY <2>1, ResolverAssumption
    <2> QED
      BY <2>1, <2>3, <2>4, <2>5, <2>6 DEF OpOK, Entry
  <1> QED
    BY <1>2, <1>3, <1>4 DEF CheckObject, TableInv

LEMMA DeletePreviousTyped ==
  ASSUME WdsTypeOK, TableInv, DeletePrevious
  PROVE  WdsTypeOK' /\ TableInv'
  <1>1. op # None /\ op.pc = "delete"
    BY DEF DeletePrevious, At
  <1>2. WdsTypeOK'
    BY DEF DeletePrevious, Event, WdsTypeOK
  <1> SUFFICES TableInv'
    BY <1>2
  <1>3. CASE op' = [op EXCEPT !.pc = "create"] /\ UNCHANGED stagedBindingPolicies
    <2>1. op' \in Ops /\ op'.pc = "create" /\ op'.staging = op.staging /\ op'.sbp = op.sbp
      BY <1>1, <1>3, InProgressTyped DEF Ops
    <2> QED
      BY <1>1, <1>3, <2>1 DEF TableInv, OpOK, Entry
  <1>4. CASE Fail
    BY <1>1, <1>4, FailTyped
  <1> QED
    BY <1>3, <1>4 DEF DeletePrevious

LEMMA CreateActiveTyped ==
  ASSUME WdsTypeOK, TableInv, CreateActive
  PROVE  WdsTypeOK' /\ TableInv'
  <1>1. op # None /\ op.pc = "create"
    BY DEF CreateActive, At
  <1>2. WdsTypeOK'
    <2>1. Entry.uid \in Uids
      BY <1>1, InProgressTyped DEF Entries
    <2>2. [uid |-> nextUid, owner |-> Entry.uid] \in BPObjects
      BY <2>1 DEF WdsTypeOK, BPObjects
    <2>3. bp' \in [BPKeys -> BPObjects \cup {None}]
      BY <2>2 DEF CreateActive, WdsTypeOK
    <2>4. nextUid' \in Uids
      BY DEF CreateActive, FreshUid, WdsTypeOK, Uids, NoUid
    <2>5. events' \in Nat
      BY DEF CreateActive, Event, WdsTypeOK
    <2> QED
      BY <2>3, <2>4, <2>5 DEF CreateActive, WdsTypeOK
  <1> SUFFICES TableInv'
    BY <1>2
  <1>3. CASE /\ op' = [op EXCEPT !.pc = "get"]
             /\ stagedBindingPolicies' =
                  [stagedBindingPolicies EXCEPT ![op.sbp].activeBindingPolicyUID = nextUid]
    <2> DEFINE deployed == [Entry EXCEPT !.activeBindingPolicyUID = nextUid]
    <2>1. /\ deployed \in Entries
          /\ deployed.stages = Entry.stages
          /\ deployed.activeIndex = Entry.activeIndex
      BY <1>1, InProgressTyped DEF Entries, WdsTypeOK, Uids
    <2>2. stagedBindingPolicies' = [stagedBindingPolicies EXCEPT ![op.sbp] = deployed]
      BY <1>3 DEF Entry
    <2>3. deployed # None
      BY <2>1, ResolverAssumption
    <2> HIDE DEF deployed
    <2>4. stagedBindingPolicies' \in [SBPs -> Entries \cup {None}] /\ stagedBindingPolicies'[op.sbp] = deployed
      BY <1>1, <2>1, <2>2, InProgressTyped DEF TableInv
    <2>5. op' \in Ops /\ op'.pc = "get" /\ op'.staging = op.staging /\ op'.sbp = op.sbp
      BY <1>1, <1>3, InProgressTyped DEF Ops
    <2>6. Entry.activeIndex < Len(Entry.stages)
      BY <1>1, InProgressTyped DEF CreateActive, OutOfStages
    <2> QED
      BY <1>1, <2>1, <2>3, <2>4, <2>5, <2>6 DEF TableInv, OpOK, Entry
  <1>4. CASE Fail
    BY <1>1, <1>4, FailTyped
  <1> QED
    BY <1>3, <1>4 DEF CreateActive

LEMMA GetPolicyTyped ==
  ASSUME WdsTypeOK, TableInv, GetPolicy
  PROVE  WdsTypeOK' /\ TableInv'
  <1>1. op # None /\ op.pc = "get"
    BY DEF GetPolicy, At
  <1>2. WdsTypeOK'
    BY DEF GetPolicy, Event, WdsTypeOK
  <1> SUFFICES TableInv'
    BY <1>2
  <1>3. CASE /\ sbp[op.sbp] # None
             /\ op' = [op EXCEPT !.pc = "update", !.got = sbp[op.sbp]]
             /\ UNCHANGED stagedBindingPolicies
    <2>1. op \in Ops /\ sbp[op.sbp] \in SBPObjects
      BY <1>1, <1>3, InProgressTyped DEF WdsTypeOK
    <2>2. \A x \in Ops : LET y == [x EXCEPT !.pc = "update"]
                         IN  y \in Ops /\ y.pc = "update" /\ y.staging = x.staging /\ y.sbp = x.sbp
      BY DEF Ops
    <2>3. \A x \in Ops, got \in SBPObjects :
             LET y == [x EXCEPT !.got = got]
             IN  y \in Ops /\ y.pc = x.pc /\ y.staging = x.staging /\ y.sbp = x.sbp /\ y.got = got
      BY DEF Ops
    <2> DEFINE next == [op EXCEPT !.pc = "update"]
    <2>4. op' = [next EXCEPT !.got = sbp[op.sbp]]
      BY <1>3
    <2>5. next \in Ops /\ next.pc = "update" /\ next.staging = op.staging /\ next.sbp = op.sbp
      BY <2>1, <2>2
    <2> HIDE DEF next
    <2>6. /\ op' \in Ops /\ op'.pc = "update" /\ op'.staging = op.staging /\ op'.sbp = op.sbp
          /\ op'.got = sbp[op.sbp]
      BY <2>1, <2>3, <2>4, <2>5
    <2> QED
      BY <1>1, <1>3, <2>6 DEF TableInv, OpOK, Entry
  <1>4. CASE Fail
    BY <1>1, <1>4, FailTyped
  <1> QED
    BY <1>3, <1>4 DEF GetPolicy

LEMMA PutStatusIs ==
  ASSUME NEW n \in SBPs, NEW obj \in SBPObjects, NEW name \in StageNames
  PROVE  PutStatus(n, [obj EXCEPT !.active = name]) = [sbp EXCEPT ![n].active = name]
  BY DEF PutStatus, SBPObjects

LEMMA UpdateStatusWrites ==
  ASSUME WdsTypeOK, TableInv, UpdateStatus
  PROVE  LET name == Stage(Entry, Entry.activeIndex).name
         IN  /\ name \in StageNames
             /\ \/ sbp' = sbp
                \/ sbp[op.sbp] = op.got /\ sbp' = [sbp EXCEPT ![op.sbp].active = name]
  <1> DEFINE name == Stage(Entry, Entry.activeIndex).name
             echo == [op.got EXCEPT !.active = name]
  <1>1. op # None /\ op.pc = "update"
    BY DEF UpdateStatus, At
  <1>2. name \in StageNames
    <2>1. Entry.activeIndex + 1 \in 1..Len(Entry.stages)
      BY <1>1, InProgressTyped DEF TableInv, OpOK
    <2>2. Entry.stages[Entry.activeIndex + 1] \in Stages
      BY <1>1, <2>1, InProgressTyped
    <2> QED
      BY <2>2 DEF Stage, Stages
  <1>3. sbp' = sbp \/ (sbp[op.sbp] = op.got /\ sbp' = PutStatus(op.sbp, echo))
    BY DEF UpdateStatus
  <1>4. op.got \in SBPObjects /\ op.sbp \in SBPs
    <2>1. op \in Ops /\ op.sbp \in SBPs
      BY <1>1, InProgressTyped
    <2>2. op.got \in SBPObjects \cup {None}
      BY <2>1 DEF Ops
    <2> QED
      BY <1>1, <2>1, <2>2 DEF TableInv, OpOK
  <1> HIDE DEF name
  <1>5. PutStatus(op.sbp, echo) = [sbp EXCEPT ![op.sbp].active = name]
    BY <1>2, <1>4, PutStatusIs
  <1> QED
    BY <1>2, <1>3, <1>5 DEF name

LEMMA UpdateStatusTyped ==
  ASSUME WdsTypeOK, TableInv, UpdateStatus
  PROVE  WdsTypeOK' /\ TableInv'
  <1> DEFINE name == Stage(Entry, Entry.activeIndex).name
             updated == [sbp EXCEPT ![op.sbp].active = name]
  <1>1. op # None /\ op.pc = "update"
    BY DEF UpdateStatus, At
  <1>2. WdsTypeOK'
    <2>1. name \in StageNames
      BY UpdateStatusWrites
    <2> HIDE DEF name
    <2>2. ASSUME sbp[op.sbp] = op.got
          PROVE  updated \in [SBPs -> SBPObjects \cup {None}]
      <3>1. sbp[op.sbp] \in SBPObjects
        BY <1>1, <2>2, InProgressTyped DEF WdsTypeOK, TableInv, OpOK
      <3>2. [sbp[op.sbp] EXCEPT !.active = name] \in SBPObjects
        BY <2>1, <3>1 DEF SBPObjects
      <3>3. updated = [sbp EXCEPT ![op.sbp] = [sbp[op.sbp] EXCEPT !.active = name]]
        OBVIOUS
      <3> QED
        BY <1>1, <3>2, <3>3, InProgressTyped DEF WdsTypeOK
    <2>3. sbp' = sbp \/ (sbp[op.sbp] = op.got /\ sbp' = updated)
      BY UpdateStatusWrites DEF name
    <2>4. sbp' \in [SBPs -> SBPObjects \cup {None}]
      BY <2>2, <2>3 DEF WdsTypeOK
    <2>5. events' \in Nat
      BY DEF UpdateStatus, Event, WdsTypeOK
    <2> QED
      BY <2>4, <2>5 DEF UpdateStatus, WdsTypeOK
  <1> SUFFICES TableInv'
    BY <1>2
  <1>3. CASE Continue
    <2>1. CASE op.staging
      <3>1. op' = Returns(op.sbp) /\ UNCHANGED stagedBindingPolicies
        BY <1>3, <2>1 DEF Continue
      <3>2. Returns(op.sbp) \in Ops /\ Returns(op.sbp).pc = "return" /\ ~Returns(op.sbp).staging
        BY <1>1, InProgressTyped, OpAtTyped DEF Returns, OpAt
      <3> QED
        BY <3>1, <3>2 DEF TableInv, OpOK
    <2>2. CASE ~op.staging
      <3>1. op' = Attempt(op.sbp, Entry) /\ UNCHANGED stagedBindingPolicies
        BY <1>3, <2>2 DEF Continue
      <3>2. Entry # None
        BY <1>1 DEF TableInv, OpOK
      <3>3. /\ op' \in Ops /\ op'.sbp = op.sbp /\ ~op'.staging /\ op'.pc \in {"return", "attempt"}
            /\ op'.pc = "attempt" => Entry.activeIndex < Len(Entry.stages)
        BY <1>1, <3>1, InProgressTyped, AttemptTyped
      <3> QED
        BY <3>1, <3>2, <3>3 DEF TableInv, OpOK, Entry
    <2> QED
      BY <2>1, <2>2
  <1>4. CASE Fail
    BY <1>1, <1>4, FailTyped
  <1> QED
    BY <1>3, <1>4 DEF UpdateStatus

LEMMA OpStepsTyped ==
  ASSUME WdsTypeOK, TableInv, OpSteps
  PROVE  WdsTypeOK' /\ TableInv'
  <1>1. CASE \E o \in Objects : CheckObject(o)
    <2>1. UNCHANGED wdsVars
      BY <1>1 DEF CheckObject
    <2> QED
      BY <1>1, <2>1, CheckObjectTyped DEF wdsVars, WdsTypeOK
  <1> QED
    BY <1>1, DeletePreviousTyped, CreateActiveTyped, GetPolicyTyped, UpdateStatusTyped DEF OpSteps

-----------------------------------------------------------------------------
(* The informers, the queue and the workers.                               *)

CachesTyped ==
    /\ sbpCache \in [SBPs -> SBPObjects \cup {None}]
    /\ bdgCache \in [BPKeys -> BindingObjects \cup {None}]
    /\ csCache \in SUBSET CombinedStatuses

QueueTyped == dirty \in SUBSET Items /\ delayed \in SUBSET Items

WorkersTyped ==
    /\ worker \in [Workers -> [pc: {"idle", "dequeued", "read", "resolving"},
                               item: Items \cup {None}, obj: Snapshots \cup {None}]]
    /\ \A w \in Workers : WorkerOK(w)

TypeInv ==
    /\ WdsTypeOK
    /\ TableInv
    /\ CachesTyped
    /\ QueueTyped
    /\ WorkersTyped
    /\ up \in BOOLEAN
    /\ panicked \in BOOLEAN

LEMMA TypeInvTypeOK == TypeInv => TypeOK
  BY DEF TypeInv, TypeOK, ResolverTypeOK, TableInv, CachesTyped, QueueTyped, WorkersTyped

LEMMA ItemParts ==
  /\ \A n \in SBPs : PolicyRef(n) \in Items
  /\ \A k \in BPKeys : BindingRef(k) \in Items
  /\ \A o \in Objects, u \in Uids : StatusRef(o, u) \in Items
  /\ \A item \in Items :
        /\ item[1] \in {"sbp", "bdg", "cs"}
        /\ item[1] = "sbp" => item[2] \in SBPs
        /\ item[1] = "bdg" => item[2] \in BPKeys
        /\ item[1] = "cs" => item[2] \in Objects \X Uids
  BY DEF Items, PolicyRef, BindingRef, StatusRef

(* A worker that changes what it does.                                     *)
LEMMA WorkerMoves ==
  ASSUME WorkersTyped, NEW w \in Workers,
         NEW pc \in {"idle", "dequeued", "read", "resolving"},
         NEW item \in Items \cup {None}, NEW obj \in Snapshots \cup {None},
         pc # "idle" => item # None,
         pc = "dequeued" => obj = None,
         pc = "read" => obj \in Found(item),
         worker' = [worker EXCEPT ![w] = Busy(pc, item, obj)]
  PROVE  WorkersTyped'
  BY DEF WorkersTyped, WorkerOK, Busy, Found

LEMMA DeliverPolicyTyped ==
  ASSUME TypeInv, NEW n \in SBPs, DeliverPolicy(n)
  PROVE  TypeInv'
  <1>1. events' \in Nat
    BY DEF DeliverPolicy, Event, WdsTypeOK, TypeInv
  <1>2. WdsTypeOK'
    BY <1>1 DEF DeliverPolicy, WdsTypeOK, TypeInv
  <1>3. TableInv'
    BY DEF DeliverPolicy, resolverVars, TableInv, OpOK, Entry, TypeInv
  <1>4. CachesTyped'
    BY DEF DeliverPolicy, Seen, CachesTyped, WdsTypeOK, TypeInv
  <1>5. QueueTyped'
    BY ItemParts DEF DeliverPolicy, QueueTyped, TypeInv
  <1>6. WorkersTyped' /\ up' \in BOOLEAN /\ panicked' \in BOOLEAN
    BY DEF DeliverPolicy, WorkersTyped, WorkerOK, TypeInv
  <1> QED
    BY <1>2, <1>3, <1>4, <1>5, <1>6 DEF TypeInv

LEMMA DeliverBindingTyped ==
  ASSUME TypeInv, NEW k \in BPKeys, DeliverBinding(k)
  PROVE  TypeInv'
  <1>1. events' \in Nat
    BY DEF DeliverBinding, Event, WdsTypeOK, TypeInv
  <1>2. WdsTypeOK'
    BY <1>1 DEF DeliverBinding, WdsTypeOK, TypeInv
  <1>3. TableInv'
    BY DEF DeliverBinding, resolverVars, TableInv, OpOK, Entry, TypeInv
  <1>4. CachesTyped'
    BY DEF DeliverBinding, Seen, CachesTyped, WdsTypeOK, TypeInv
  <1>5. QueueTyped'
    BY ItemParts DEF DeliverBinding, QueueTyped, TypeInv
  <1>6. WorkersTyped' /\ up' \in BOOLEAN /\ panicked' \in BOOLEAN
    BY DEF DeliverBinding, WorkersTyped, WorkerOK, TypeInv
  <1> QED
    BY <1>2, <1>3, <1>4, <1>5, <1>6 DEF TypeInv

LEMMA DeliverStatusTyped ==
  ASSUME TypeInv, NEW o \in Objects, NEW u \in 1..(nextUid - 1), DeliverStatus(o, u)
  PROVE  TypeInv'
  <1>1. u \in Uids
    BY DEF WdsTypeOK, Uids, NoUid, TypeInv
  <1>2. WdsTypeOK'
    BY DEF DeliverStatus, wdsVars, WdsTypeOK, TypeInv
  <1>3. TableInv'
    BY DEF DeliverStatus, resolverVars, TableInv, OpOK, Entry, TypeInv
  <1>4. CachesTyped'
    BY DEF DeliverStatus, CachedReports, Reports, CachesTyped, WdsTypeOK, TypeInv
  <1>5. QueueTyped'
    BY <1>1, ItemParts DEF DeliverStatus, QueueTyped, TypeInv
  <1>6. WorkersTyped' /\ up' \in BOOLEAN /\ panicked' \in BOOLEAN
    BY DEF DeliverStatus, WorkersTyped, WorkerOK, TypeInv
  <1> QED
    BY <1>2, <1>3, <1>4, <1>5, <1>6 DEF TypeInv

LEMMA ReadListerTyped ==
  ASSUME TypeInv, NEW w \in Workers, ReadLister(w)
  PROVE  WorkersTyped'
  <1> DEFINE item == worker[w].item
             found == Lookup(item) \ {None}
  <1>1. item \in Items /\ worker[w].pc = "dequeued"
    BY DEF ReadLister, WorkersTyped, WorkerOK, TypeInv
  <1>2. \A obj \in found : obj \in Snapshots /\ obj \in Found(item)
    BY <1>1, ItemParts DEF Lookup, GetFromStore, Found, Snapshots, CachesTyped, CachedReports, TypeInv
  <1>3. CASE worker' = [worker EXCEPT ![w] = IdleWorker]
    BY <1>3, WorkerMoves DEF IdleWorker, TypeInv
  <1>4. CASE item[1] = "sbp" /\ worker' = [worker EXCEPT ![w] = Busy("read", item, None)]
    <2>1. None \in Found(item)
      BY <1>4 DEF Found
    <2>2. item # None
      BY <1>1 DEF WorkersTyped, WorkerOK, TypeInv
    <2> QED
      BY <1>1, <1>4, <2>1, <2>2, WorkerMoves DEF TypeInv
  <1>5. ASSUME NEW obj \in found, worker' = [worker EXCEPT ![w] = Busy("read", item, obj)]
        PROVE  WorkersTyped'
    <2>1. item # None
      BY <1>1 DEF WorkersTyped, WorkerOK, TypeInv
    <2> QED
      BY <1>1, <1>2, <1>5, <2>1, WorkerMoves DEF TypeInv
  <1> QED
    BY <1>3, <1>4, <1>5 DEF ReadLister

LEMMA ReconcileTyped ==
  ASSUME TypeInv, NEW w \in Workers, Reconcile(w)
  PROVE  TableInv' /\ WorkersTyped'
  <1> DEFINE item == worker[w].item
             obj == worker[w].obj
  <1>1. item \in Items /\ item # None /\ obj \in Found(item)
    BY DEF Reconcile, WorkersTyped, WorkerOK, TypeInv
  <1>2. WorkersTyped'
    BY <1>1, WorkerMoves DEF Reconcile, TypeInv
  <1>3. CASE item[1] = "sbp" /\ obj = None /\ DeleteStagedBindingPolicy(item[2])
    <2>1. item[2] \in SBPs
      BY <1>1, <1>3, ItemParts
    <2>2. Returns(item[2]) \in Ops /\ Returns(item[2]).pc = "return" /\ ~Returns(item[2]).staging
      BY <2>1, OpAtTyped DEF Returns, OpAt
    <2> QED
      BY <1>2, <1>3, <2>1, <2>2 DEF DeleteStagedBindingPolicy, TypeInv, TableInv, OpOK
  <1>4. CASE item[1] = "sbp" /\ obj # None /\ NoteStagedBindingPolicy(item[2], obj)
    BY <1>1, <1>2, <1>4, ItemParts, NotedTyped DEF Found, TypeInv
  <1>5. CASE item[1] = "bdg" /\ NoteBinding(item[2], obj)
    BY <1>1, <1>2, <1>5, ItemParts, NoteBindingTyped DEF Found, TypeInv
  <1>6. CASE item[1] = "cs" /\ NoteCombinedStatus(obj)
    BY <1>1, <1>2, <1>6, ItemParts, NoteCombinedStatusTyped DEF Found, TypeInv
  <1> QED
    BY <1>3, <1>4, <1>5, <1>6 DEF Reconcile

LEMMA WorkerStepTyped ==
  ASSUME TypeInv, NEW w \in Workers, WorkerStep(w)
  PROVE  TypeInv'
  <1>1. ASSUME NEW item \in dirty, Get(w, item)
        PROVE  TypeInv'
    <2>1. item \in Items /\ item # None
      BY ControllerAssumption DEF TypeInv, QueueTyped
    <2>2. WorkersTyped'
      BY <1>1, <2>1, WorkerMoves DEF Get, TypeInv
    <2>3. WdsTypeOK'
      BY <1>1 DEF Get, wdsVars, TypeInv, WdsTypeOK
    <2>4. TableInv'
      BY <1>1 DEF Get, resolverVars, TypeInv, TableInv, OpOK, Entry
    <2> QED
      BY <1>1, <2>2, <2>3, <2>4 DEF Get, cacheVars, TypeInv, CachesTyped, QueueTyped
  <1>2. CASE ReadLister(w)
    <2>1. WorkersTyped'
      BY <1>2, ReadListerTyped
    <2>2. WdsTypeOK'
      BY <1>2 DEF ReadLister, wdsVars, TypeInv, WdsTypeOK
    <2>3. TableInv'
      BY <1>2 DEF ReadLister, resolverVars, TypeInv, TableInv, OpOK, Entry
    <2> QED
      BY <1>2, <2>1, <2>2, <2>3 DEF ReadLister, cacheVars, TypeInv, CachesTyped, QueueTyped
  <1>3. CASE Reconcile(w)
    <2>1. TableInv' /\ WorkersTyped'
      BY <1>3, ReconcileTyped
    <2>2. WdsTypeOK'
      BY <1>3 DEF Reconcile, wdsVars, TypeInv, WdsTypeOK
    <2> QED
      BY <1>3, <2>1, <2>2 DEF Reconcile, cacheVars, TypeInv, CachesTyped, QueueTyped
  <1>4. CASE Finish(w)
    <2>1. worker[w].item \in Items
      BY <1>4 DEF Finish, TypeInv, WorkersTyped, WorkerOK
    <2>2. WorkersTyped'
      BY <1>4, WorkerMoves DEF Finish, IdleWorker, TypeInv
    <2>3. WdsTypeOK'
      BY <1>4 DEF Finish, wdsVars, TypeInv, WdsTypeOK
    <2>4. TableInv'
      BY <1>4 DEF Finish, TypeInv, TableInv, OpOK
    <2> QED
      BY <1>4, <2>1, <2>2, <2>3, <2>4 DEF Finish, cacheVars, TypeInv, CachesTyped, QueueTyped
  <1> QED
    BY <1>1, <1>2, <1>3, <1>4 DEF WorkerStep

(* A process that has lost its memory, or starts with none.                *)
LEMMA LoseMemoryTyped ==
  ASSUME WdsTypeOK', LoseMemory, panicked' \in BOOLEAN
  PROVE  TypeInv'
  <1>1. TableInv'
    BY DEF LoseMemory, TableInv, OpOK
  <1>2. WorkersTyped'
    BY DEF LoseMemory, WorkersTyped, WorkerOK, IdleWorker, Busy
  <1> QED
    BY <1>1, <1>2 DEF LoseMemory, TypeInv, CachesTyped, QueueTyped

LEMMA RestartTyped ==
  ASSUME TypeInv, Restart
  PROVE  TypeInv'
  <1>1. WdsTypeOK' /\ TableInv' /\ WorkersTyped'
    BY DEF Restart, wdsVars, resolverVars, TypeInv, WdsTypeOK, TableInv, OpOK, Entry, WorkersTyped, WorkerOK
  <1>2. CachesTyped'
    BY DEF Restart, TypeInv, CachesTyped, WdsTypeOK
  <1>3. \A c \in cs : c.obj \in Objects /\ c.bp \in Uids
    BY DEF TypeInv, WdsTypeOK, CombinedStatuses
  <1>4. QueueTyped'
    BY <1>3, ItemParts DEF Restart, TypeInv, QueueTyped
  <1> QED
    BY <1>1, <1>2, <1>4 DEF Restart, TypeInv

LEMMA InitTyped == Init => TypeInv
  <1> SUFFICES ASSUME Init PROVE TypeInv
    OBVIOUS
  <1>1. TableInv
    BY DEF Init, ResolverStart, TableInv, OpOK
  <1>2. WorkersTyped
    BY DEF Init, WorkersTyped, WorkerOK, IdleWorker, Busy
  <1> QED
    BY <1>1, <1>2, WdsInitTyped DEF Init, TypeInv, CachesTyped, QueueTyped

LEMMA NextTyped == TypeInv /\ [Next]_vars => TypeInv'
  <1> SUFFICES ASSUME TypeInv, [Next]_vars PROVE TypeInv'
    OBVIOUS
  <1>1. CASE Environment
    <2>1. WdsTypeOK'
      BY <1>1, WdsNextTyped DEF Environment, TypeInv
    <2>2. TableInv' /\ WorkersTyped'
      BY <1>1 DEF Environment, resolverVars, queueVars, TypeInv, TableInv, OpOK, Entry, WorkersTyped, WorkerOK
    <2> QED
      BY <1>1, <2>1, <2>2 DEF Environment, cacheVars, queueVars, TypeInv, CachesTyped, QueueTyped
  <1>2. CASE Informers
    BY <1>2, DeliverPolicyTyped, DeliverBindingTyped, DeliverStatusTyped DEF Informers
  <1>3. CASE \E w \in Workers : WorkerStep(w)
    BY <1>3, WorkerStepTyped
  <1>4. CASE Resolve
    <2>1. WdsTypeOK' /\ TableInv'
      BY <1>4, OpStepsTyped DEF Resolve, TypeInv
    <2>2. WorkersTyped'
      BY <1>4 DEF Resolve, queueVars, TypeInv, WorkersTyped, WorkerOK
    <2> QED
      BY <1>4, <2>1, <2>2 DEF Resolve, cacheVars, queueVars, TypeInv, CachesTyped, QueueTyped
  <1>5. CASE \E item \in delayed : Requeue(item)
    <2>1. WdsTypeOK' /\ TableInv' /\ WorkersTyped'
      BY <1>5 DEF Requeue, wdsVars, resolverVars, TypeInv, WdsTypeOK, TableInv, OpOK, Entry, WorkersTyped, WorkerOK
    <2> QED
      BY <1>5, <2>1 DEF Requeue, cacheVars, TypeInv, CachesTyped, QueueTyped
  <1>6. CASE Crash
    <2>1. WdsTypeOK'
      BY <1>6 DEF Crash, Event, TypeInv, WdsTypeOK
    <2> QED
      BY <1>6, <2>1, LoseMemoryTyped DEF Crash, TypeInv
  <1>7. CASE Panic
    <2>1. WdsTypeOK'
      BY <1>7 DEF Panic, wdsVars, TypeInv, WdsTypeOK
    <2> QED
      BY <1>7, <2>1, LoseMemoryTyped DEF Panic
  <1>8. CASE Restart
    BY <1>8, RestartTyped
  <1>9. CASE UNCHANGED vars
    BY <1>9 DEF vars, wdsVars, resolverVars, cacheVars, queueVars, TypeInv, WdsTypeOK, TableInv,
       OpOK, Entry, CachesTyped, QueueTyped, WorkersTyped, WorkerOK
  <1> QED
    BY <1>1, <1>2, <1>3, <1>4, <1>5, <1>6, <1>7, <1>8, <1>9 DEF Next

(* Whatever the policies, objects and workers, and whatever crashes, faults *)
(* and races there are, the controller's table, operation in progress,      *)
(* caches, queue and workers stay within their types.                       *)
THEOREM TypeCorrect == Spec => []TypeOK
  <1>1. Spec => []TypeInv
    BY InitTyped, NextTyped, PTL DEF Spec
  <1> QED
    BY <1>1, TypeInvTypeOK, PTL

-----------------------------------------------------------------------------
(* Why the process does not panic.  The stages of a policy only ever come  *)
(* from a user, so each list the controller holds ends in a stage without  *)
(* a condition; the condition is attempted for a stage that has one, so    *)
(* the stage-up that follows never leaves the list.                        *)

SafeList(stages) ==
    /\ Len(stages) > 0
    /\ ~stages[Len(stages)].cond

ListsAreSafe == \A stages \in StageLists : SafeList(stages)

PoliciesSafe(policies) == \A n \in SBPs : policies[n] # None => SafeList(policies[n].stages)

TableSafe ==
    /\ PoliciesSafe(stagedBindingPolicies)
    /\ \A n \in SBPs : Tracked(n) # None => Tracked(n).activeIndex < Len(Tracked(n).stages)
    /\ op # None => (op.pc = "attempt" => Stage(Entry, Entry.activeIndex).cond)

WorkersSafe ==
    \A w \in Workers :
        worker[w].pc = "read" /\ worker[w].item[1] = "sbp" /\ worker[w].obj # None =>
            SafeList(worker[w].obj.stages)

SafeInv ==
    /\ PoliciesSafe(sbp)
    /\ PoliciesSafe(sbpCache)
    /\ TableSafe
    /\ WorkersSafe
    /\ ~panicked

-----------------------------------------------------------------------------
(* The operations keep the table safe.                                     *)

LEMMA NotedSafe ==
  ASSUME TableInv, TableSafe, NEW n \in SBPs, NEW obj \in SBPObjects, SafeList(obj.stages),
         NoteStagedBindingPolicy(n, obj)
  PROVE  TableSafe'
  <1> DEFINE active == ActiveStage(obj)
             entry == [uid |-> obj.uid, stages |-> obj.stages, activeIndex |-> active,
                       activeBindingPolicyUID |-> NoUid, bindingSpec |-> {}]
  <1>1. active \in Nat /\ active < Len(obj.stages)
    BY ActiveStageTyped DEF SafeList
  <1> HIDE DEF active
  <1>2. /\ stagedBindingPolicies' = [stagedBindingPolicies EXCEPT ![n] = entry]
        /\ op' = EnsureActiveStage(n, active, FALSE)
    BY DEF NoteStagedBindingPolicy, active
  <1>3. op'.pc # "attempt"
    BY <1>1, <1>2, EnsureActiveStageTyped
  <1>4. \A m \in SBPs : stagedBindingPolicies'[m] = IF m = n THEN entry ELSE stagedBindingPolicies[m]
    BY <1>2 DEF TableInv
  <1>5. entry.stages = obj.stages /\ entry.activeIndex = active
    OBVIOUS
  <1> HIDE DEF entry
  <1> QED
    BY <1>1, <1>3, <1>4, <1>5 DEF TableSafe, PoliciesSafe, Tracked

(* A table that keeps its lists and indices, and an operation that either  *)
(* attempts the condition of a stage that has one or none at all.          *)
LEMMA SameStagesSafe ==
  ASSUME TableSafe,
         \A n \in SBPs :
            Tracked(n)' # None =>
               /\ Tracked(n) # None
               /\ Tracked(n)'.stages = Tracked(n).stages
               /\ Tracked(n)'.activeIndex = Tracked(n).activeIndex,
         op' # None => (op'.pc = "attempt" => Stage(Entry', Entry'.activeIndex).cond)
  PROVE  TableSafe'
  BY DEF TableSafe, PoliciesSafe, Tracked

LEMMA NoteBindingSafe ==
  ASSUME TableInv, TableSafe, NEW key \in BPKeys, NEW binding \in BindingObjects, NoteBinding(key, binding)
  PROVE  TableSafe'
  <1> DEFINE n == OwnerOf[key]
             e == EntryOf(key)
             noted == [e EXCEPT !.bindingSpec = binding.workload]
  <1>1. e # None => n \in SBPs /\ e \in Entries /\ e = stagedBindingPolicies[n]
    BY EntryOfTyped
  <1>2. CASE ~IsActiveBinding(e, binding)
    <2>1. op' = Returns(key[1]) /\ UNCHANGED stagedBindingPolicies
      BY <1>2 DEF NoteBinding
    <2>2. op'.pc # "attempt"
      BY <2>1 DEF Returns, OpAt
    <2> QED
      BY <2>1, <2>2, SameStagesSafe DEF Tracked
  <1>3. CASE IsActiveBinding(e, binding)
    <2>1. n \in SBPs /\ e \in Entries /\ e # None /\ e = stagedBindingPolicies[n]
      BY <1>1, <1>3 DEF IsActiveBinding
    <2>2. binding.workload \in SUBSET Objects
      BY DEF BindingObjects
    <2>3. noted \in Entries /\ noted.stages = e.stages /\ noted.activeIndex = e.activeIndex
      BY <2>1, <2>2 DEF Entries
    <2>4. stagedBindingPolicies' = [stagedBindingPolicies EXCEPT ![n] = noted] /\ op' = Attempt(n, noted)
      BY <1>3 DEF NoteBinding
    <2> HIDE DEF noted
    <2>5. \A m \in SBPs : stagedBindingPolicies'[m] = IF m = n THEN noted ELSE stagedBindingPolicies[m]
      BY <2>4 DEF TableInv
    <2>6. op'.sbp = n /\ (op'.pc = "attempt" => Stage(noted, noted.activeIndex).cond)
      BY <2>1, <2>3, <2>4, AttemptTyped
    <2> QED
      BY <2>1, <2>3, <2>5, <2>6, SameStagesSafe DEF Tracked, Entry
  <1> QED
    BY <1>2, <1>3

LEMMA NoteCombinedStatusSafe ==
  ASSUME TableInv, TableSafe, NEW status \in CombinedStatuses, NoteCombinedStatus(status)
  PROVE  TableSafe'
  <1> DEFINE n == OwnerOf[status.label]
             e == EntryOf(status.label)
  <1>0. status.label \in BPKeys
    BY DEF CombinedStatuses
  <1>1. e # None => n \in SBPs /\ e \in Entries /\ e = stagedBindingPolicies[n]
    BY <1>0, EntryOfTyped
  <1>2. UNCHANGED stagedBindingPolicies
    BY DEF NoteCombinedStatus
  <1>3. op' # None => (op'.pc = "attempt" => Stage(Entry', Entry'.activeIndex).cond)
    <2>1. CASE e = None
      BY <2>1 DEF NoteCombinedStatus, Returns, OpAt
    <2>2. CASE e # None
      <3>1. op' = Attempt(n, e)
        BY <2>2 DEF NoteCombinedStatus
      <3> HIDE DEF n, e
      <3> QED
        BY <1>1, <1>2, <2>2, <3>1, AttemptTyped DEF Entry
    <2> QED
      BY <2>1, <2>2
  <1> QED
    BY <1>2, <1>3, SameStagesSafe DEF Tracked

LEMMA FailSafe ==
  ASSUME TableInv, TableSafe, op # None, op.pc # "return", Fail
  PROVE  TableSafe'
  <1>1. op'.pc = "return"
    BY DEF Fail, Returns, OpAt
  <1>2. CASE op.staging
    <2> DEFINE reverted == [Entry EXCEPT !.activeIndex = @ - 1]
    <2>1. stagedBindingPolicies' = [stagedBindingPolicies EXCEPT ![op.sbp] = reverted]
      BY <1>2 DEF Fail, Entry
    <2>2. reverted.stages = Entry.stages /\ reverted.activeIndex = Entry.activeIndex - 1
      BY InProgressTyped DEF Entries
    <2>3. Entry.activeIndex < Len(Entry.stages) /\ SafeList(Entry.stages)
      BY InProgressTyped DEF TableSafe, PoliciesSafe, Tracked, Entry, TableInv, OpOK
    <2>4. reverted.activeIndex < Len(reverted.stages)
      BY <2>2, <2>3, InProgressTyped
    <2> HIDE DEF reverted
    <2>5. \A m \in SBPs : stagedBindingPolicies'[m] = IF m = op.sbp THEN reverted ELSE stagedBindingPolicies[m]
      BY <2>1 DEF TableInv
    <2> QED
      BY <1>1, <2>2, <2>3, <2>4, <2>5 DEF TableSafe, PoliciesSafe, Tracked
  <1>3. CASE ~op.staging
    <2>1. UNCHANGED stagedBindingPolicies
      BY <1>3 DEF Fail
    <2> QED
      BY <1>1, <2>1, SameStagesSafe DEF Tracked
  <1> QED
    BY <1>2, <1>3

LEMMA CheckObjectSafe ==
  ASSUME TableInv, TableSafe, NEW o \in Objects, CheckObject(o)
  PROVE  TableSafe'
  <1>1. op # None /\ op.pc = "attempt"
    BY DEF CheckObject, At
  <1>2. CASE op' = Returns(op.sbp) /\ UNCHANGED stagedBindingPolicies
    BY <1>2, SameStagesSafe DEF Returns, OpAt, Tracked
  <1>3. CASE op' = [op EXCEPT !.todo = op.todo \ {o}] /\ UNCHANGED stagedBindingPolicies
    <2>1. op'.sbp = op.sbp
      BY <1>1, <1>3, InProgressTyped DEF Ops
    <2> QED
      BY <1>1, <1>3, <2>1, SameStagesSafe DEF Tracked, Entry, TableSafe
  <1>4. CASE /\ stagedBindingPolicies' = [stagedBindingPolicies EXCEPT ![op.sbp].activeIndex = @ + 1]
             /\ op' = EnsureActiveStage(op.sbp, Entry.activeIndex + 1, TRUE)
    <2> DEFINE next == [Entry EXCEPT !.activeIndex = @ + 1]
    <2>1. stagedBindingPolicies' = [stagedBindingPolicies EXCEPT ![op.sbp] = next]
      BY <1>4 DEF Entry
    <2>2. next.stages = Entry.stages /\ next.activeIndex = Entry.activeIndex + 1
      BY <1>1, InProgressTyped DEF Entries
    <2>3. /\ Entry.activeIndex < Len(Entry.stages)
          /\ Entry.stages[Entry.activeIndex + 1].cond
          /\ SafeList(Entry.stages)
      BY <1>1, InProgressTyped DEF TableSafe, PoliciesSafe, Tracked, Entry, TableInv, OpOK, Stage
    <2>4. Entry.activeIndex + 1 # Len(Entry.stages)
      BY <2>3 DEF SafeList
    <2>5. next.activeIndex < Len(next.stages)
      BY <1>1, <2>2, <2>3, <2>4, InProgressTyped
    <2> HIDE DEF next
    <2>6. \A m \in SBPs : stagedBindingPolicies'[m] = IF m = op.sbp THEN next ELSE stagedBindingPolicies[m]
      BY <2>1 DEF TableInv
    <2>7. op'.pc # "attempt"
      <3>1. Entry.activeIndex + 1 \in Nat
        BY <1>1, InProgressTyped
      <3> QED
        BY <1>1, <1>4, <3>1, InProgressTyped, EnsureActiveStageTyped
    <2> QED
      BY <2>2, <2>3, <2>5, <2>6, <2>7 DEF TableSafe, PoliciesSafe, Tracked
  <1> QED
    BY <1>2, <1>3, <1>4 DEF CheckObject

LEMMA CreateActiveSafe ==
  ASSUME WdsTypeOK, TableInv, TableSafe, CreateActive
  PROVE  TableSafe'
  <1>1. op # None /\ op.pc = "create"
    BY DEF CreateActive, At
  <1>2. CASE /\ op' = [op EXCEPT !.pc = "get"]
             /\ stagedBindingPolicies' =
                  [stagedBindingPolicies EXCEPT ![op.sbp].activeBindingPolicyUID = nextUid]
    <2> DEFINE deployed == [Entry EXCEPT !.activeBindingPolicyUID = nextUid]
    <2>1. deployed.stages = Entry.stages /\ deployed.activeIndex = Entry.activeIndex /\ Entry # None
      BY <1>1, InProgressTyped, ResolverAssumption DEF Entries
    <2>2. stagedBindingPolicies' = [stagedBindingPolicies EXCEPT ![op.sbp] = deployed]
      BY <1>2 DEF Entry
    <2> HIDE DEF deployed
    <2>3. \A m \in SBPs : stagedBindingPolicies'[m] = IF m = op.sbp THEN deployed ELSE stagedBindingPolicies[m]
      BY <2>2 DEF TableInv
    <2>4. op'.pc = "get"
      BY <1>1, <1>2, InProgressTyped DEF Ops
    <2> QED
      BY <2>1, <2>3, <2>4, SameStagesSafe DEF Tracked, Entry
  <1>3. CASE Fail
    BY <1>1, <1>3, FailSafe
  <1> QED
    BY <1>2, <1>3 DEF CreateActive

LEMMA OpStepsSafe ==
  ASSUME WdsTypeOK, TableInv, TableSafe, OpSteps
  PROVE  TableSafe'
  <1>1. CASE \E o \in Objects : CheckObject(o)
    BY <1>1, CheckObjectSafe
  <1>2. CASE DeletePrevious
    <2>1. op # None /\ op.pc = "delete"
      BY <1>2 DEF DeletePrevious, At
    <2>2. CASE op' = [op EXCEPT !.pc = "create"] /\ UNCHANGED stagedBindingPolicies
      <3>1. op'.pc = "create"
        BY <2>1, <2>2, InProgressTyped DEF Ops
      <3> QED
        BY <2>2, <3>1, SameStagesSafe DEF Tracked
    <2> QED
      BY <1>2, <2>1, <2>2, FailSafe DEF DeletePrevious
  <1>3. CASE CreateActive
    BY <1>3, CreateActiveSafe
  <1>4. CASE GetPolicy
    <2>1. op # None /\ op.pc = "get"
      BY <1>4 DEF GetPolicy, At
    <2>2. CASE op' = [op EXCEPT !.pc = "update", !.got = sbp[op.sbp]] /\ UNCHANGED stagedBindingPolicies
      <3>1. op'.pc = "update"
        BY <2>1, <2>2, InProgressTyped DEF Ops
      <3> QED
        BY <2>2, <3>1, SameStagesSafe DEF Tracked
    <2> QED
      BY <1>4, <2>1, <2>2, FailSafe DEF GetPolicy
  <1>5. CASE UpdateStatus
    <2>1. op # None /\ op.pc = "update"
      BY <1>5 DEF UpdateStatus, At
    <2>2. CASE Continue
      <3>1. UNCHANGED stagedBindingPolicies
        BY <2>2 DEF Continue
      <3>2. op'.pc = "attempt" => Stage(Entry', Entry'.activeIndex).cond
        <4>1. CASE op.staging
          BY <2>2, <4>1 DEF Continue, Returns, OpAt
        <4>2. CASE ~op.staging
          <5>1. op' = Attempt(op.sbp, Entry)
            BY <2>2, <4>2 DEF Continue
          <5>2. op'.sbp = op.sbp /\ (op'.pc = "attempt" => Stage(Entry, Entry.activeIndex).cond)
            BY <2>1, <5>1, InProgressTyped, AttemptTyped
          <5> QED
            BY <3>1, <5>2 DEF Entry
        <4> QED
          BY <4>1, <4>2
      <3> QED
        BY <3>1, <3>2, SameStagesSafe DEF Tracked
    <2> QED
      BY <1>5, <2>1, <2>2, FailSafe DEF UpdateStatus
  <1> QED
    BY <1>1, <1>2, <1>3, <1>4, <1>5 DEF OpSteps

-----------------------------------------------------------------------------
LEMMA UsersSafe ==
  ASSUME WdsTypeOK, ListsAreSafe, PoliciesSafe(sbp), WdsNext
  PROVE  PoliciesSafe(sbp)'
  <1>1. ASSUME NEW n \in SBPs, NEW stages \in StageLists, UserCreates(n, stages)
        PROVE  PoliciesSafe(sbp)'
    <2>1. \A m \in SBPs : sbp'[m] = sbp[m] \/ sbp'[m].stages = stages
      BY <1>1 DEF UserCreates, WdsTypeOK
    <2> QED
      BY <2>1 DEF PoliciesSafe, ListsAreSafe
  <1>2. ASSUME NEW n \in SBPs, NEW stages \in StageLists, UserEdits(n, stages)
        PROVE  PoliciesSafe(sbp)'
    <2> DEFINE restaged == [sbp[n] EXCEPT !.stages = stages]
               edited == [restaged EXCEPT !.gen = @ + 1]
    <2>1. sbp[n] \in SBPObjects
      BY <1>2 DEF UserEdits, WdsTypeOK
    <2>2. restaged \in SBPObjects /\ restaged.stages = stages
      BY <2>1, WdsAssumption DEF SBPObjects
    <2>3. \A obj \in SBPObjects : [obj EXCEPT !.gen = @ + 1].stages = obj.stages
      BY DEF SBPObjects
    <2> HIDE DEF restaged
    <2>4. edited.stages = stages
      BY <2>2, <2>3
    <2>5. sbp' = [sbp EXCEPT ![n].stages = stages, ![n].gen = @ + 1]
      BY <1>2 DEF UserEdits
    <2>6. sbp' = [sbp EXCEPT ![n] = edited]
      BY <2>5 DEF restaged
    <2> HIDE DEF edited
    <2>7. \A m \in SBPs : sbp'[m] = sbp[m] \/ sbp'[m].stages = stages
      BY <2>4, <2>6 DEF WdsTypeOK
    <2> QED
      BY <2>7 DEF PoliciesSafe, ListsAreSafe
  <1>3. ASSUME NEW n \in SBPs, UserDeletes(n)
        PROVE  PoliciesSafe(sbp)'
    BY <1>3 DEF UserDeletes, PoliciesSafe, WdsTypeOK
  <1>4. ASSUME UNCHANGED sbp PROVE PoliciesSafe(sbp)'
    BY <1>4 DEF PoliciesSafe
  <1>5. CASE \E o \in Objects : WorkloadChanges(o)
    BY <1>4, <1>5 DEF WorkloadChanges
  <1>6. CASE \E k \in BPKeys : CollectBP(k) \/ KubeStellar(k)
    BY <1>4, <1>6 DEF CollectBP, KubeStellar, KsBinds, KsRebinds, KsUnbinds, KsReports, KsRetracts
  <1> QED
    BY <1>1, <1>2, <1>3, <1>5, <1>6 DEF WdsNext

(* Nothing but UpdateStatus touches a policy, and it leaves the list alone. *)
LEMMA OpStepsKeepLists ==
  ASSUME WdsTypeOK, TableInv, PoliciesSafe(sbp), OpSteps
  PROVE  PoliciesSafe(sbp)'
  <1>1. ASSUME UNCHANGED sbp PROVE PoliciesSafe(sbp)'
    BY <1>1 DEF PoliciesSafe
  <1>2. CASE (\E o \in Objects : CheckObject(o)) \/ DeletePrevious \/ CreateActive \/ GetPolicy
    BY <1>1, <1>2 DEF CheckObject, DeletePrevious, CreateActive, GetPolicy, wdsVars
  <1>3. CASE UpdateStatus
    <2> DEFINE name == Stage(Entry, Entry.activeIndex).name
               renamed == [sbp[op.sbp] EXCEPT !.active = name]
    <2>1. op # None /\ op.pc = "update"
      BY <1>3 DEF UpdateStatus, At
    <2> HIDE DEF name
    <2>2. CASE sbp[op.sbp] = op.got /\ sbp' = [sbp EXCEPT ![op.sbp].active = name]
      <3>1. sbp[op.sbp] \in SBPObjects /\ sbp[op.sbp] # None
        BY <2>1, <2>2, InProgressTyped DEF WdsTypeOK, TableInv, OpOK
      <3>2. renamed.stages = sbp[op.sbp].stages
        BY <3>1 DEF SBPObjects
      <3>3. sbp' = [sbp EXCEPT ![op.sbp] = renamed]
        BY <2>2
      <3> HIDE DEF renamed
      <3>4. \A m \in SBPs : sbp'[m] = IF m = op.sbp THEN renamed ELSE sbp[m]
        BY <3>3 DEF WdsTypeOK
      <3> QED
        BY <2>1, <3>1, <3>2, <3>4, InProgressTyped DEF PoliciesSafe
    <2>3. sbp' = sbp \/ (sbp[op.sbp] = op.got /\ sbp' = [sbp EXCEPT ![op.sbp].active = name])
      BY <1>3, UpdateStatusWrites DEF name
    <2> QED
      BY <1>1, <2>2, <2>3
  <1> QED
    BY <1>2, <1>3 DEF OpSteps

LEMMA WorkerStepSafe ==
  ASSUME TypeInv, SafeInv, NEW w \in Workers, WorkerStep(w)
  PROVE  SafeInv'
  <1>1. ASSUME NEW item \in dirty, Get(w, item)
        PROVE  SafeInv'
    <2>1. WorkersSafe'
      BY <1>1 DEF Get, Busy, SafeInv, WorkersSafe, TypeInv, WorkersTyped
    <2> QED
      BY <1>1, <2>1, SameStagesSafe DEF Get, wdsVars, resolverVars, cacheVars, SafeInv, PoliciesSafe, TableSafe, Tracked, Entry
  <1>2. CASE ReadLister(w)
    <2> DEFINE item == worker[w].item
               found == Lookup(item) \ {None}
    <2>1. item \in Items
      BY <1>2, ReadListerTyped DEF ReadLister, TypeInv, WorkersTyped, WorkerOK
    <2>2. \A obj \in found : item[1] = "sbp" => SafeList(obj.stages)
      BY <2>1, ItemParts DEF Lookup, GetFromStore, SafeInv, PoliciesSafe
    <2>3. \/ worker' = [worker EXCEPT ![w] = IdleWorker]
          \/ worker' = [worker EXCEPT ![w] = Busy("read", item, None)]
          \/ \E obj \in found : worker' = [worker EXCEPT ![w] = Busy("read", item, obj)]
      BY <1>2 DEF ReadLister
    <2> HIDE DEF item, found
    <2>4. WorkersSafe'
      <3>1. CASE worker' = [worker EXCEPT ![w] = IdleWorker]
        BY <3>1 DEF IdleWorker, Busy, SafeInv, WorkersSafe, TypeInv, WorkersTyped
      <3>2. CASE worker' = [worker EXCEPT ![w] = Busy("read", item, None)]
        BY <3>2 DEF Busy, SafeInv, WorkersSafe, TypeInv, WorkersTyped
      <3>3. CASE \E obj \in found : worker' = [worker EXCEPT ![w] = Busy("read", item, obj)]
        BY <2>2, <3>3 DEF Busy, SafeInv, WorkersSafe, TypeInv, WorkersTyped
      <3> QED
        BY <2>3, <3>1, <3>2, <3>3
    <2> QED
      BY <1>2, <2>4 DEF ReadLister, wdsVars, resolverVars, cacheVars, SafeInv, PoliciesSafe, TableSafe, Tracked, Entry
  <1>3. CASE Reconcile(w)
    <2> DEFINE item == worker[w].item
               obj == worker[w].obj
    <2>1. item \in Items /\ obj \in Found(item) /\ worker[w].pc = "read"
      BY <1>3 DEF Reconcile, TypeInv, WorkersTyped, WorkerOK
    <2>2. WorkersSafe'
      BY <1>3 DEF Reconcile, Busy, SafeInv, WorkersSafe, TypeInv, WorkersTyped
    <2>3. CASE item[1] = "sbp" /\ obj = None /\ DeleteStagedBindingPolicy(item[2])
      <3>1. op'.pc # "attempt"
        BY <2>3 DEF DeleteStagedBindingPolicy, Returns, OpAt
      <3>2. stagedBindingPolicies' = [stagedBindingPolicies EXCEPT ![item[2]] = None]
        BY <2>3 DEF DeleteStagedBindingPolicy
      <3>3. \A m \in SBPs : stagedBindingPolicies'[m] \in {None, stagedBindingPolicies[m]}
        BY <3>2 DEF TypeInv, TableInv
      <3> QED
        BY <1>3, <2>2, <3>1, <3>3, SameStagesSafe
        DEF Reconcile, wdsVars, cacheVars, SafeInv, PoliciesSafe, Tracked
    <2>4. CASE item[1] = "sbp" /\ obj # None /\ NoteStagedBindingPolicy(item[2], obj)
      <3>1. SafeList(obj.stages) /\ obj \in SBPObjects /\ item[2] \in SBPs
        BY <2>1, <2>4, ItemParts DEF SafeInv, WorkersSafe, Found
      <3>2. TableSafe'
        BY <2>4, <3>1, NotedSafe DEF SafeInv, TypeInv
      <3> QED
        BY <1>3, <2>2, <3>2 DEF Reconcile, wdsVars, cacheVars, SafeInv, PoliciesSafe
    <2>5. CASE item[1] = "bdg" /\ NoteBinding(item[2], obj)
      <3>1. TableSafe'
        BY <2>1, <2>5, ItemParts, NoteBindingSafe DEF Found, SafeInv, TypeInv
      <3> QED
        BY <1>3, <2>2, <3>1 DEF Reconcile, wdsVars, cacheVars, SafeInv, PoliciesSafe
    <2>6. CASE item[1] = "cs" /\ NoteCombinedStatus(obj)
      <3>1. TableSafe'
        BY <2>1, <2>6, ItemParts, NoteCombinedStatusSafe DEF Found, SafeInv, TypeInv
      <3> QED
        BY <1>3, <2>2, <3>1 DEF Reconcile, wdsVars, cacheVars, SafeInv, PoliciesSafe
    <2> QED
      BY <1>3, <2>3, <2>4, <2>5, <2>6 DEF Reconcile
  <1>4. CASE Finish(w)
    <2>1. WorkersSafe'
      BY <1>4 DEF Finish, IdleWorker, Busy, SafeInv, WorkersSafe, TypeInv, WorkersTyped
    <2> QED
      BY <1>4, <2>1, SameStagesSafe DEF Finish, wdsVars, cacheVars, SafeInv, PoliciesSafe, Tracked
  <1> QED
    BY <1>1, <1>2, <1>3, <1>4 DEF WorkerStep

LEMMA InitSafe == Init => SafeInv
  BY DEF Init, WdsInit, ResolverStart, IdleWorker, Busy, SafeInv, PoliciesSafe, TableSafe, Tracked, WorkersSafe

LEMMA LoseMemorySafe ==
  ASSUME PoliciesSafe(sbp)', LoseMemory, ~panicked'
  PROVE  SafeInv'
  BY DEF LoseMemory, IdleWorker, Busy, SafeInv, PoliciesSafe, TableSafe, Tracked, WorkersSafe

LEMMA NextSafe ==
  ASSUME ListsAreSafe, TypeInv, SafeInv, [Next]_vars
  PROVE  SafeInv'
  <1>1. CASE Environment
    <2>1. PoliciesSafe(sbp)'
      BY <1>1, UsersSafe DEF Environment, TypeInv, SafeInv
    <2> QED
      BY <1>1, <2>1 DEF Environment, resolverVars, cacheVars, queueVars, SafeInv, PoliciesSafe, TableSafe, Tracked, Entry, WorkersSafe
  <1>2. CASE Informers
    <2>1. ASSUME NEW n \in SBPs, DeliverPolicy(n) PROVE SafeInv'
      <3>1. \A m \in SBPs : sbpCache'[m] \in {None, sbp[m], sbpCache[m]}
        BY <2>1 DEF DeliverPolicy, Seen, TypeInv, CachesTyped
      <3>2. PoliciesSafe(sbpCache)'
        BY <3>1 DEF SafeInv, PoliciesSafe
      <3> QED
        BY <2>1, <3>2 DEF DeliverPolicy, resolverVars, SafeInv, PoliciesSafe, TableSafe, Tracked, Entry, WorkersSafe
    <2>2. ASSUME NEW k \in BPKeys, DeliverBinding(k) PROVE SafeInv'
      BY <2>2 DEF DeliverBinding, resolverVars, SafeInv, PoliciesSafe, TableSafe, Tracked, Entry, WorkersSafe
    <2>3. ASSUME NEW o \in Objects, NEW u \in 1..(nextUid - 1), DeliverStatus(o, u) PROVE SafeInv'
      BY <2>3 DEF DeliverStatus, wdsVars, resolverVars, SafeInv, PoliciesSafe, TableSafe, Tracked, Entry, WorkersSafe
    <2> QED
      BY <1>2, <2>1, <2>2, <2>3 DEF Informers
  <1>3. CASE \E w \in Workers : WorkerStep(w)
    BY <1>3, WorkerStepSafe
  <1>4. CASE Resolve
    <2>1. TableSafe' /\ PoliciesSafe(sbp)'
      BY <1>4, OpStepsSafe, OpStepsKeepLists DEF Resolve, TypeInv, SafeInv
    <2> QED
      BY <1>4, <2>1 DEF Resolve, cacheVars, queueVars, SafeInv, PoliciesSafe, WorkersSafe
  <1>5. CASE \E item \in delayed : Requeue(item)
    BY <1>5 DEF Requeue, wdsVars, resolverVars, cacheVars, SafeInv, PoliciesSafe, TableSafe, Tracked, Entry, WorkersSafe
  <1>6. CASE Crash
    BY <1>6, LoseMemorySafe DEF Crash, SafeInv, PoliciesSafe
  <1>7. ~Panic
    <2>1. ~(At("create") /\ OutOfStages(Entry))
      <3>1. SUFFICES ASSUME At("create") PROVE ~OutOfStages(Entry)
        OBVIOUS
      <3>2. op # None /\ op.pc # "return"
        BY <3>1 DEF At
      <3>3. Entry.activeIndex < Len(Entry.stages)
        BY <3>2, InProgressTyped DEF TypeInv, TableInv, OpOK, SafeInv, TableSafe, Tracked, Entry
      <3> QED
        BY <3>2, <3>3, InProgressTyped DEF OutOfStages, TypeInv
    <2> QED
      BY <2>1 DEF Panic, Panics
  <1>8. CASE Restart
    BY <1>8 DEF Restart, wdsVars, resolverVars, SafeInv, PoliciesSafe, TableSafe, Tracked, Entry, WorkersSafe
  <1>9. CASE UNCHANGED vars
    BY <1>9 DEF vars, wdsVars, resolverVars, cacheVars, queueVars, SafeInv, PoliciesSafe, TableSafe, Tracked, Entry, WorkersSafe
  <1> QED
    BY <1>1, <1>2, <1>3, <1>4, <1>5, <1>6, <1>7, <1>8, <1>9 DEF Next

(* When every list of stages a user writes ends in an unconditional stage, *)
(* no operation of the resolver indexes past its stages: whatever edits,   *)
(* deletions, crashes, faults and relists happen, the process does not     *)
(* panic.                                                                  *)
THEOREM NeverPanics ==
  ASSUME ListsAreSafe
  PROVE  Spec => []NoPanic
  <1>1. TypeInv /\ SafeInv /\ [Next]_vars => TypeInv' /\ SafeInv'
    BY NextTyped, NextSafe
  <1>2. Init => TypeInv /\ SafeInv
    BY InitTyped, InitSafe
  <1>3. SafeInv => NoPanic
    BY DEF SafeInv, NoPanic
  <1> QED
    BY <1>1, <1>2, <1>3, PTL DEF Spec
=============================================================================
