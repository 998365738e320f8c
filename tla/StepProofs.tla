------------------------------ MODULE StepProofs ------------------------------
(***************************************************************************)
(* What the steps of the resolver do to its table and to the operation in  *)
(* progress, field by field: the facts on which the proofs about the work  *)
(* queue and about the rollout rest, too.                                  *)
(*                                                                         *)
(* Then proofs about the UID of the active BindingPolicy that the resolver *)
(* keeps in its table, and by which NoteBinding and the condition tell the *)
(* active stage's Bindings and statuses from those of other stages.  The   *)
(* UID is that of a BindingPolicy made for the tracked incarnation, for a  *)
(* stage that is at most one ahead of the active one; it is that of the    *)
(* active stage as long as no operation fails between its Create and its   *)
(* end.  Both invariants are the same up to this slack.                    *)
(***************************************************************************)
EXTENDS ControllerProofs

-----------------------------------------------------------------------------
OthersKept(n) == \A m \in SBPs : m # n => Tracked(m)' = Tracked(m)

(* Policy n is still tracked with the stages it had; i and u are its new   *)
(* index and UID.                                                          *)
EntryBecomes(n, i, u) ==
    /\ Tracked(n) \in Entries
    /\ Tracked(n)' \in Entries
    /\ Tracked(n)'.uid = Tracked(n).uid
    /\ Tracked(n)'.stages = Tracked(n).stages
    /\ Tracked(n)'.activeIndex = i
    /\ Tracked(n)'.activeBindingPolicyUID = u
    /\ OthersKept(n)

TableKept == UNCHANGED stagedBindingPolicies

OpBecomes(n, pc, staging) ==
    /\ op' \in Ops
    /\ op'.sbp = n
    /\ op'.pc = pc
    /\ op'.staging = staging

LEMMA ReturnsParts ==
  ASSUME NEW n \in SBPs, op' = Returns(n)
  PROVE  OpBecomes(n, "return", FALSE) /\ ~op'.err
  BY OpAtTyped DEF Returns, OpAt, OpBecomes

LEMMA ReturnsErrParts ==
  ASSUME NEW n \in SBPs, NEW err \in BOOLEAN, op' = [Returns(n) EXCEPT !.err = err]
  PROVE  OpBecomes(n, "return", FALSE) /\ (op'.err <=> err)
  <1>1. Returns(n) \in Ops /\ Returns(n).sbp = n /\ Returns(n).pc = "return" /\ Returns(n).staging = FALSE
    BY OpAtTyped DEF Returns, OpAt
  <1>2. \A x \in Ops : LET y == [x EXCEPT !.err = err]
                       IN  y \in Ops /\ y.sbp = x.sbp /\ y.pc = x.pc /\ y.staging = x.staging /\ y.err = err
    BY DEF Ops
  <1> QED
    BY <1>1, <1>2 DEF OpBecomes

LEMMA OpMovesTo ==
  ASSUME op \in Ops, NEW pc \in {"delete", "create", "get", "update", "attempt", "return"},
         op' = [op EXCEPT !.pc = pc]
  PROVE  OpBecomes(op.sbp, pc, op.staging) /\ (op'.err <=> op.err) /\ op'.got = op.got
  BY DEF Ops, OpBecomes

LEMMA EntryReplaced ==
  ASSUME TableInv, NEW n \in SBPs, NEW f \in Entries, Tracked(n) \in Entries,
         f.uid = Tracked(n).uid, f.stages = Tracked(n).stages,
         stagedBindingPolicies' = [stagedBindingPolicies EXCEPT ![n] = f]
  PROVE  EntryBecomes(n, f.activeIndex, f.activeBindingPolicyUID)
  <1>1. \A m \in SBPs : Tracked(m)' = IF m = n THEN f ELSE Tracked(m)
    BY DEF TableInv, Tracked
  <1> QED
    BY <1>1 DEF EntryBecomes, OthersKept

LEMMA EntryKept ==
  ASSUME TableInv, NEW n \in SBPs, Tracked(n) \in Entries, TableKept
  PROVE  EntryBecomes(n, Tracked(n).activeIndex, Tracked(n).activeBindingPolicyUID)
  BY DEF TableKept, EntryBecomes, OthersKept, Tracked

LEMMA OpStepsBusy ==
  ASSUME TableInv, OpSteps
  PROVE  op # None /\ op.pc # "return" /\ op.sbp \in SBPs
  <1>1. op # None /\ op.pc # "return"
    BY DEF OpSteps, CheckObject, DeletePrevious, CreateActive, GetPolicy, UpdateStatus, At
  <1> QED
    BY <1>1, InProgressTyped

-----------------------------------------------------------------------------
(* An operation that gives up.                                             *)
LEMMA FailParts ==
  ASSUME NEW n \in SBPs, op.sbp = n, TableInv, op # None, op.pc # "return", Fail
  PROVE  /\ EntryBecomes(n, IF op.staging THEN Entry.activeIndex - 1 ELSE Entry.activeIndex,
                         Entry.activeBindingPolicyUID)
         /\ OpBecomes(n, "return", FALSE)
         /\ op'.err <=> ~op.staging
  <1>1. n \in SBPs /\ op.staging \in BOOLEAN /\ Entry \in Entries /\ Entry = Tracked(n)
    BY InProgressTyped DEF Entry, Tracked
  <1>2. (~op.staging) \in BOOLEAN
    BY Zenon
  <1>3. OpBecomes(n, "return", FALSE) /\ (op'.err <=> ~op.staging)
    BY <1>1, <1>2, ReturnsErrParts DEF Fail
  <1>4. CASE op.staging
    <2> DEFINE reverted == [Entry EXCEPT !.activeIndex = @ - 1]
    <2>1. Entry.activeIndex - 1 \in Nat
      BY <1>4, InProgressTyped DEF TableInv, OpOK
    <2>2. /\ reverted \in Entries
          /\ reverted.uid = Entry.uid
          /\ reverted.stages = Entry.stages
          /\ reverted.activeIndex = Entry.activeIndex - 1
          /\ reverted.activeBindingPolicyUID = Entry.activeBindingPolicyUID
      BY <1>1, <2>1 DEF Entries
    <2>3. stagedBindingPolicies' = [stagedBindingPolicies EXCEPT ![n] = reverted]
      BY <1>4 DEF Fail, Entry
    <2> HIDE DEF reverted
    <2>4. EntryBecomes(n, reverted.activeIndex, reverted.activeBindingPolicyUID)
      BY <1>1, <2>2, <2>3, EntryReplaced
    <2> QED
      BY <1>3, <1>4, <2>2, <2>4
  <1>5. CASE ~op.staging
    BY <1>1, <1>3, <1>5, EntryKept DEF Fail, TableKept
  <1> QED
    BY <1>4, <1>5

LEMMA CheckObjectParts ==
  ASSUME NEW n \in SBPs, op.sbp = n, TableInv, NEW o \in Objects, CheckObject(o)
  PROVE  /\ UNCHANGED wdsVars
         /\ op.pc = "attempt" /\ ~op.staging
         /\ \/ /\ TableKept
               /\ OpBecomes(n, "return", FALSE) \/ OpBecomes(n, "attempt", FALSE)
               /\ op'.pc = "return" => ~op'.err
            \/ /\ EntryBecomes(n, Entry.activeIndex + 1, Entry.activeBindingPolicyUID)
               /\ OpBecomes(n, "delete", TRUE)
  <1>1. op # None /\ op.pc = "attempt" /\ ~op.staging
    BY DEF CheckObject, At, TableInv, OpOK
  <1>2. op \in Ops /\ n \in SBPs /\ Entry \in Entries /\ Entry = Tracked(n) /\ op.staging = FALSE
    BY <1>1, InProgressTyped DEF Entry, Tracked
  <1>3. UNCHANGED wdsVars
    BY DEF CheckObject
  <1>4. CASE op' = Returns(n) /\ UNCHANGED stagedBindingPolicies
    BY <1>1, <1>2, <1>3, <1>4, ReturnsParts DEF TableKept
  <1>5. CASE op' = [op EXCEPT !.todo = op.todo \ {o}] /\ UNCHANGED stagedBindingPolicies
    <2>1. OpBecomes(n, "attempt", FALSE)
      BY <1>1, <1>2, <1>5 DEF Ops, OpBecomes
    <2> QED
      BY <1>1, <1>2, <1>3, <1>5, <2>1 DEF TableKept, OpBecomes
  <1>6. CASE /\ stagedBindingPolicies' = [stagedBindingPolicies EXCEPT ![n].activeIndex = @ + 1]
             /\ op' = EnsureActiveStage(n, Entry.activeIndex + 1, TRUE)
    <2> DEFINE next == [Entry EXCEPT !.activeIndex = @ + 1]
    <2>1. Entry.activeIndex \in Nat
      BY <1>1, InProgressTyped
    <2>2. /\ next \in Entries
          /\ next.uid = Entry.uid
          /\ next.stages = Entry.stages
          /\ next.activeIndex = Entry.activeIndex + 1
          /\ next.activeBindingPolicyUID = Entry.activeBindingPolicyUID
      BY <1>2, <2>1 DEF Entries
    <2>3. stagedBindingPolicies' = [stagedBindingPolicies EXCEPT ![n] = next]
      BY <1>6 DEF Entry
    <2> HIDE DEF next
    <2>4. EntryBecomes(n, next.activeIndex, next.activeBindingPolicyUID)
      BY <1>2, <2>2, <2>3, EntryReplaced
    <2>5. op' = OpAt(n, "delete", TRUE)
      <3>1. op' = EnsureActiveStage(n, Entry.activeIndex + 1, TRUE)
        BY <1>6
      <3>2. Entry.activeIndex + 1 > 0
        BY <2>1
      <3> QED
        BY <3>1, <3>2 DEF EnsureActiveStage
    <2>6. OpBecomes(n, "delete", TRUE)
      BY <1>2, <2>5, OpAtTyped DEF OpAt, OpBecomes
    <2> QED
      BY <1>1, <1>2, <1>3, <2>2, <2>4, <2>6
  <1> QED
    BY <1>4, <1>5, <1>6 DEF CheckObject

LEMMA DeletePreviousParts ==
  ASSUME NEW n \in SBPs, op.sbp = n, TableInv, DeletePrevious
  PROVE  /\ op # None /\ op.pc = "delete"
         /\ UNCHANGED <<sbp, nextUid>>
         /\ \/ /\ TableKept
               /\ bp' = [bp EXCEPT ![Key(n, Entry, Entry.activeIndex - 1)] = None]
               /\ OpBecomes(n, "create", op.staging)
            \/ /\ Event("fault")
               /\ bp' \in {bp, [bp EXCEPT ![Key(n, Entry, Entry.activeIndex - 1)] = None]}
               /\ Fail
  <1>1. op # None /\ op.pc = "delete"
    BY DEF DeletePrevious, At
  <1>2. op \in Ops
    BY <1>1, InProgressTyped
  <1> QED
    BY <1>1, <1>2, OpMovesTo DEF DeletePrevious, TableKept

LEMMA CreateActiveParts ==
  ASSUME NEW n \in SBPs, op.sbp = n, WdsTypeOK, TableInv, CreateActive
  PROVE  LET key == Key(n, Entry, Entry.activeIndex)
             created == [bp EXCEPT ![key] = [uid |-> nextUid, owner |-> Entry.uid]]
         IN  /\ op # None /\ op.pc = "create"
             /\ Entry.activeIndex < Len(Entry.stages)
             /\ UNCHANGED sbp
             /\ \/ /\ bp[key] = None
                   /\ FreshUid
                   /\ bp' = created
                   /\ EntryBecomes(n, Entry.activeIndex, nextUid)
                   /\ OpBecomes(n, "get", op.staging)
                \/ /\ bp[key] # None \/ nextUid > MaxUid
                   /\ Fail
                   /\ UNCHANGED <<bp, nextUid>>
                \/ /\ Event("fault")
                   /\ \/ UNCHANGED <<bp, nextUid>>
                      \/ FreshUid /\ bp' = created
                   /\ Fail
  <1> DEFINE key == Key(n, Entry, Entry.activeIndex)
             created == [bp EXCEPT ![key] = [uid |-> nextUid, owner |-> Entry.uid]]
  <1>1. op # None /\ op.pc = "create"
    BY DEF CreateActive, At
  <1>2. op \in Ops /\ n \in SBPs /\ Entry \in Entries /\ Entry = Tracked(n)
    BY <1>1, InProgressTyped DEF Entry, Tracked
  <1>3. Entry.activeIndex < Len(Entry.stages)
    BY <1>1, InProgressTyped DEF CreateActive, OutOfStages
  <1> HIDE DEF key, created
  <1>4. ASSUME op' = [op EXCEPT !.pc = "get"],
               stagedBindingPolicies' =
                   [stagedBindingPolicies EXCEPT ![n].activeBindingPolicyUID = nextUid]
        PROVE  EntryBecomes(n, Entry.activeIndex, nextUid) /\ OpBecomes(n, "get", op.staging)
    <2> DEFINE deployed == [Entry EXCEPT !.activeBindingPolicyUID = nextUid]
    <2>1. /\ deployed \in Entries
          /\ deployed.uid = Entry.uid
          /\ deployed.stages = Entry.stages
          /\ deployed.activeIndex = Entry.activeIndex
          /\ deployed.activeBindingPolicyUID = nextUid
      BY <1>2 DEF Entries, WdsTypeOK, Uids
    <2>2. stagedBindingPolicies' = [stagedBindingPolicies EXCEPT ![n] = deployed]
      BY <1>4 DEF Entry
    <2> HIDE DEF deployed
    <2>3. EntryBecomes(n, deployed.activeIndex, deployed.activeBindingPolicyUID)
      BY <1>2, <2>1, <2>2, EntryReplaced
    <2> QED
      BY <1>2, <1>4, <2>1, <2>3, OpMovesTo
  <1> QED
    BY <1>1, <1>3, <1>4 DEF CreateActive, key, created

LEMMA GetPolicyParts ==
  ASSUME NEW n \in SBPs, op.sbp = n, WdsTypeOK, TableInv, GetPolicy
  PROVE  /\ op # None /\ op.pc = "get"
         /\ UNCHANGED <<sbp, bp, nextUid>>
         /\ \/ /\ sbp[n] # None
               /\ TableKept
               /\ OpBecomes(n, "update", op.staging)
               /\ op'.got = sbp[n]
            \/ sbp[n] = None /\ Fail
            \/ Event("fault") /\ Fail
  <1>1. op # None /\ op.pc = "get"
    BY DEF GetPolicy, At
  <1>2. op \in Ops
    BY <1>1, InProgressTyped
  <1>3. ASSUME op' = [op EXCEPT !.pc = "update", !.got = sbp[n]], sbp[n] # None
        PROVE  OpBecomes(n, "update", op.staging) /\ op'.got = sbp[n]
    <2> DEFINE next == [op EXCEPT !.pc = "update"]
    <2>1. sbp[n] \in SBPObjects
      BY <1>1, <1>3, InProgressTyped DEF WdsTypeOK
    <2>2. next \in Ops /\ next.pc = "update" /\ next.staging = op.staging /\ next.sbp = n
      BY <1>2 DEF Ops
    <2>3. op' = [next EXCEPT !.got = sbp[n]]
      BY <1>3
    <2> HIDE DEF next
    <2>4. \A x \in Ops, got \in SBPObjects :
             LET y == [x EXCEPT !.got = got]
             IN  y \in Ops /\ y.pc = x.pc /\ y.staging = x.staging /\ y.sbp = x.sbp /\ y.got = got
      BY DEF Ops
    <2> QED
      BY <2>1, <2>2, <2>3, <2>4 DEF OpBecomes
  <1> QED
    BY <1>1, <1>3 DEF GetPolicy, TableKept

(* What follows a deployed stage: nothing more, or its condition.          *)
OpAttempts(n) ==
    \/ OpBecomes(n, "return", FALSE) /\ ~op'.err
    \/ OpBecomes(n, "attempt", FALSE)

LEMMA AttemptParts ==
  ASSUME NEW n \in SBPs, NEW e \in Entries, op' = Attempt(n, e)
  PROVE  OpAttempts(n)
  <1>1. CASE op' = Returns(n)
    BY <1>1, ReturnsParts DEF OpAttempts
  <1>2. CASE op' # Returns(n)
    <2>1. /\ op' \in Ops /\ op'.sbp = n /\ op'.staging = FALSE
          /\ op'.pc \in {"return", "attempt"}
      <3>1. op' \in Ops /\ op'.sbp = n /\ ~op'.staging /\ op'.pc \in {"return", "attempt"}
        BY AttemptTyped
      <3> QED
        BY <3>1 DEF Ops
    <2>2. op'.pc # "return"
      <3> DEFINE filtered == FilterWorkload(e.bindingSpec, Stage(e, e.activeIndex))
                 start == OpAt(n, "attempt", FALSE)
      <3>1. op' = [start EXCEPT !.todo = filtered]
        BY <1>2 DEF Attempt
      <3>2. start \in Ops /\ start.pc = "attempt"
        BY OpAtTyped DEF OpAt
      <3> HIDE DEF filtered, start
      <3>3. op'.pc = start.pc
        BY <3>1, <3>2 DEF Ops
      <3> QED
        BY <3>2, <3>3
    <2> QED
      BY <2>1, <2>2 DEF OpAttempts, OpBecomes
  <1> QED
    BY <1>1, <1>2

(* The status of policy n names another stage; nothing else changes.       *)
StatusBecomes(n, name) ==
    /\ sbp[n] \in SBPObjects
    /\ sbp'[n] \in SBPObjects
    /\ sbp'[n].uid = sbp[n].uid
    /\ sbp'[n].gen = sbp[n].gen
    /\ sbp'[n].stages = sbp[n].stages
    /\ sbp'[n].active = name
    /\ \A m \in SBPs : m # n => sbp'[m] = sbp[m]

LEMMA StatusPut ==
  ASSUME WdsTypeOK, NEW n \in SBPs, NEW name \in StageNames, sbp[n] # None,
         sbp' = [sbp EXCEPT ![n].active = name]
  PROVE  StatusBecomes(n, name)
  <1> DEFINE renamed == [sbp[n] EXCEPT !.active = name]
  <1>1. sbp[n] \in SBPObjects
    BY DEF WdsTypeOK
  <1>2. /\ renamed \in SBPObjects
        /\ renamed.uid = sbp[n].uid
        /\ renamed.gen = sbp[n].gen
        /\ renamed.stages = sbp[n].stages
        /\ renamed.active = name
    BY <1>1 DEF SBPObjects
  <1>3. sbp' = [sbp EXCEPT ![n] = renamed]
    OBVIOUS
  <1> HIDE DEF renamed
  <1>4. \A m \in SBPs : sbp'[m] = IF m = n THEN renamed ELSE sbp[m]
    BY <1>3 DEF WdsTypeOK
  <1> QED
    BY <1>1, <1>2, <1>4 DEF StatusBecomes

LEMMA UpdateStatusParts ==
  ASSUME NEW n \in SBPs, op.sbp = n, WdsTypeOK, TableInv, UpdateStatus
  PROVE  LET name == Stage(Entry, Entry.activeIndex).name
         IN  /\ op # None /\ op.pc = "update"
             /\ UNCHANGED <<bp, nextUid>>
             /\ \/ /\ sbp[n] = op.got
                   /\ StatusBecomes(n, name)
                   /\ TableKept
                   /\ IF op.staging THEN OpBecomes(n, "return", FALSE) /\ ~op'.err
                                    ELSE OpAttempts(n)
                \/ sbp[n] # op.got /\ UNCHANGED sbp /\ Fail
                \/ /\ Event("fault")
                   /\ UNCHANGED sbp \/ StatusBecomes(n, name)
                   /\ Fail
  <1> DEFINE name == Stage(Entry, Entry.activeIndex).name
             echo == [op.got EXCEPT !.active = name]
  <1>1. op # None /\ op.pc = "update"
    BY DEF UpdateStatus, At
  <1>2. op \in Ops /\ n \in SBPs /\ Entry \in Entries
    BY <1>1, InProgressTyped
  <1>3. op.got \in SBPObjects /\ op.got # None
    BY <1>1, <1>2, WdsAssumption DEF TableInv, OpOK, Ops
  <1>4. name \in StageNames
    BY UpdateStatusWrites
  <1> HIDE DEF name
  <1>5. ASSUME sbp[n] = op.got, sbp' = PutStatus(n, echo)
        PROVE  StatusBecomes(n, name)
    <2>1. sbp' = [sbp EXCEPT ![n].active = name]
      BY <1>2, <1>3, <1>4, <1>5, PutStatusIs
    <2> QED
      BY <1>2, <1>3, <1>4, <1>5, <2>1, StatusPut
  <1>6. ASSUME Continue
        PROVE  /\ TableKept
               /\ IF op.staging THEN OpBecomes(n, "return", FALSE) /\ ~op'.err
                                ELSE OpAttempts(n)
    BY <1>2, <1>6, ReturnsParts, AttemptParts DEF Continue, TableKept
  <1>7. \/ sbp[n] = op.got /\ sbp' = PutStatus(n, echo) /\ Continue
        \/ sbp[n] # op.got /\ Fail /\ UNCHANGED sbp
        \/ /\ Event("fault")
           /\ sbp' = sbp \/ (sbp[n] = op.got /\ sbp' = PutStatus(n, echo))
           /\ Fail
    BY DEF UpdateStatus, name
  <1>8. UNCHANGED <<bp, nextUid>>
    BY DEF UpdateStatus
  <1> HIDE DEF echo
  <1> QED
    BY <1>1, <1>5, <1>6, <1>7, <1>8 DEF name

-----------------------------------------------------------------------------
(* No step of an operation tracks another incarnation or another spec, and *)
(* none changes more of a policy than its status.                          *)
TracksSame(n) ==
    \/ Tracked(n)' = Tracked(n)
    \/ /\ Tracked(n) \in Entries
       /\ Tracked(n)' \in Entries
       /\ Tracked(n)'.uid = Tracked(n).uid
       /\ Tracked(n)'.stages = Tracked(n).stages

SpecSame(n) ==
    \/ sbp'[n] = sbp[n]
    \/ /\ sbp[n] \in SBPObjects
       /\ sbp'[n] \in SBPObjects
       /\ sbp'[n].uid = sbp[n].uid
       /\ sbp'[n].gen = sbp[n].gen
       /\ sbp'[n].stages = sbp[n].stages

LEMMA OpStepsSame ==
  ASSUME NEW n \in SBPs, op.sbp = n, WdsTypeOK, TableInv, OpSteps
  PROVE  /\ op' \in Ops /\ op'.sbp = n
         /\ OthersKept(n)
         /\ TracksSame(n)
         /\ \A m \in SBPs : IF m = n THEN SpecSame(m) ELSE sbp'[m] = sbp[m]
         /\ op'.pc = "update" => op.pc = "get" /\ op'.got = sbp[n] /\ sbp'[n] = sbp[n]
  <1> DEFINE Moves == op' \in Ops /\ op'.sbp = n /\ OthersKept(n) /\ TracksSame(n)
             Lasts == \A m \in SBPs : IF m = n THEN SpecSame(m) ELSE sbp'[m] = sbp[m]
  <1>1. op # None /\ op.pc # "return"
    BY OpStepsBusy
  <1>2. ASSUME Fail PROVE Moves /\ op'.pc = "return"
    BY <1>1, <1>2, FailParts DEF EntryBecomes, OpBecomes, TracksSame
  <1>3. ASSUME TableKept PROVE OthersKept(n) /\ TracksSame(n)
    BY <1>3 DEF TableKept, OthersKept, TracksSame, Tracked
  <1>4. ASSUME UNCHANGED sbp PROVE Lasts
    BY <1>4 DEF SpecSame
  <1>5. ASSUME NEW name, StatusBecomes(n, name) PROVE Lasts
    BY <1>5 DEF StatusBecomes, SpecSame
  <1> HIDE DEF Lasts
  <1>6. CASE \E o \in Objects : CheckObject(o)
    <2>1. UNCHANGED sbp
      BY <1>6 DEF CheckObject, wdsVars
    <2> QED
      BY <1>3, <1>4, <1>6, <2>1, CheckObjectParts DEF EntryBecomes, OpBecomes, TracksSame, Lasts
  <1>7. CASE DeletePrevious
    BY <1>2, <1>3, <1>4, <1>7, DeletePreviousParts DEF OpBecomes, Lasts
  <1>8. CASE CreateActive
    <2>1. Fail \/ (OpBecomes(n, "get", op.staging) /\ EntryBecomes(n, Entry.activeIndex, nextUid))
      BY <1>8, CreateActiveParts
    <2>2. UNCHANGED sbp
      BY <1>8, CreateActiveParts
    <2> QED
      BY <1>2, <1>4, <2>1, <2>2 DEF EntryBecomes, OpBecomes, TracksSame, Lasts
  <1>9. CASE GetPolicy
    BY <1>2, <1>3, <1>4, <1>9, GetPolicyParts DEF OpBecomes, Lasts
  <1>10. CASE UpdateStatus
    <2>1. /\ UNCHANGED sbp \/ StatusBecomes(n, Stage(Entry, Entry.activeIndex).name)
          /\ \/ Fail
             \/ TableKept /\ (OpBecomes(n, "return", FALSE) \/ OpBecomes(n, "attempt", FALSE))
      BY <1>10, UpdateStatusParts DEF OpAttempts
    <2>2. Lasts
      BY <1>4, <1>5, <2>1
    <2> QED
      BY <1>2, <1>3, <2>1, <2>2 DEF OpBecomes, Lasts
  <1> QED
    BY <1>6, <1>7, <1>8, <1>9, <1>10 DEF OpSteps

-----------------------------------------------------------------------------
(* The calls that take the mutex.                                          *)

(* A policy that is noted starts over, with no BindingPolicy of its own.   *)
LEMMA NotedParts ==
  ASSUME TableInv, NEW n \in SBPs, NEW obj \in SBPObjects, NoteStagedBindingPolicy(n, obj)
  PROVE  /\ op = None
         /\ Tracked(n)' \in Entries
         /\ Tracked(n)'.uid = obj.uid
         /\ Tracked(n)'.stages = obj.stages
         /\ Tracked(n)'.activeIndex = ActiveStage(obj)
         /\ Tracked(n)'.activeBindingPolicyUID = NoUid
         /\ OthersKept(n)
         /\ OpBecomes(n, IF ActiveStage(obj) > 0 THEN "delete" ELSE "create", FALSE)
  <1> DEFINE active == ActiveStage(obj)
             entry == [uid |-> obj.uid, stages |-> obj.stages, activeIndex |-> active,
                       activeBindingPolicyUID |-> NoUid, bindingSpec |-> {}]
  <1>1. active \in Nat
    BY ActiveStageTyped
  <1>2. obj.uid \in Uids /\ obj.stages \in Seq(Stages)
    BY DEF SBPObjects
  <1>3. /\ op = None
        /\ stagedBindingPolicies' = [stagedBindingPolicies EXCEPT ![n] = entry]
        /\ op' = EnsureActiveStage(n, active, FALSE)
    BY DEF NoteStagedBindingPolicy
  <1> HIDE DEF active
  <1>4. entry \in Entries
    BY <1>1, <1>2 DEF Entries, NoUid
  <1>5. \A m \in SBPs : Tracked(m)' = IF m = n THEN entry ELSE Tracked(m)
    BY <1>3 DEF TableInv, Tracked
  <1>6. OpBecomes(n, IF active > 0 THEN "delete" ELSE "create", FALSE)
    <2>1. op' = OpAt(n, IF active > 0 THEN "delete" ELSE "create", FALSE)
      BY <1>3 DEF EnsureActiveStage
    <2> QED
      BY <2>1, OpAtTyped DEF OpAt, OpBecomes
  <1>7. /\ entry.uid = obj.uid
        /\ entry.stages = obj.stages
        /\ entry.activeIndex = active
        /\ entry.activeBindingPolicyUID = NoUid
    OBVIOUS
  <1> HIDE DEF entry
  <1>8. Tracked(n)' = entry /\ OthersKept(n)
    BY <1>5 DEF OthersKept
  <1> QED
    BY <1>3, <1>4, <1>6, <1>7, <1>8 DEF active

LEMMA DeletedParts ==
  ASSUME TableInv, NEW n \in SBPs, DeleteStagedBindingPolicy(n)
  PROVE  /\ op = None
         /\ Tracked(n)' = None
         /\ OthersKept(n)
         /\ OpBecomes(n, "return", FALSE)
         /\ ~op'.err
  BY ReturnsParts DEF DeleteStagedBindingPolicy, TableInv, Tracked, OthersKept

LEMMA NoteBindingParts ==
  ASSUME TableInv, NEW key \in BPKeys, NEW binding \in BindingObjects, NoteBinding(key, binding)
  PROVE  /\ op = None
         /\ \E n \in SBPs :
               /\ OpAttempts(n)
               /\ \/ TableKept
                  \/ EntryBecomes(n, Tracked(n).activeIndex, Tracked(n).activeBindingPolicyUID)
  <1> DEFINE n == OwnerOf[key]
             e == EntryOf(key)
             noted == [e EXCEPT !.bindingSpec = binding.workload]
  <1>1. /\ key[1] \in SBPs
        /\ e # None => n \in SBPs /\ e \in Entries /\ e = Tracked(n)
    BY EntryOfTyped DEF Tracked
  <1>2. op = None
    BY DEF NoteBinding
  <1>3. CASE ~IsActiveBinding(e, binding)
    <2>1. op' = Returns(key[1]) /\ TableKept
      BY <1>3 DEF NoteBinding, TableKept
    <2> QED
      BY <1>1, <1>2, <2>1, ReturnsParts DEF OpAttempts
  <1>4. CASE IsActiveBinding(e, binding)
    <2>1. n \in SBPs /\ e \in Entries /\ e = Tracked(n)
      BY <1>1, <1>4 DEF IsActiveBinding
    <2>2. binding.workload \in SUBSET Objects
      BY DEF BindingObjects
    <2>3. /\ noted \in Entries /\ noted.uid = e.uid /\ noted.stages = e.stages
          /\ noted.activeIndex = e.activeIndex
          /\ noted.activeBindingPolicyUID = e.activeBindingPolicyUID
      BY <2>1, <2>2 DEF Entries
    <2>4. /\ stagedBindingPolicies' = [stagedBindingPolicies EXCEPT ![n] = noted]
          /\ op' = Attempt(n, noted)
      BY <1>4 DEF NoteBinding
    <2> HIDE DEF noted, n, e
    <2>5. EntryBecomes(n, noted.activeIndex, noted.activeBindingPolicyUID)
      BY <2>1, <2>3, <2>4, EntryReplaced
    <2>6. OpAttempts(n)
      BY <2>1, <2>3, <2>4, AttemptParts
    <2> QED
      BY <1>2, <2>1, <2>3, <2>5, <2>6
  <1> QED
    BY <1>3, <1>4

LEMMA NoteCombinedStatusParts ==
  ASSUME TableInv, NEW status \in CombinedStatuses, NoteCombinedStatus(status)
  PROVE  /\ op = None
         /\ TableKept
         /\ \E n \in SBPs : OpAttempts(n)
  <1> DEFINE n == OwnerOf[status.label]
             e == EntryOf(status.label)
  <1>0. status.label \in BPKeys
    BY DEF CombinedStatuses
  <1>1. /\ status.label[1] \in SBPs
        /\ e # None => n \in SBPs /\ e \in Entries
    BY <1>0, EntryOfTyped
  <1>2. op = None /\ TableKept
    BY DEF NoteCombinedStatus, TableKept
  <1>3. CASE e = None
    <2>1. op' = Returns(status.label[1])
      BY <1>3 DEF NoteCombinedStatus
    <2> QED
      BY <1>1, <1>2, <2>1, ReturnsParts DEF OpAttempts
  <1>4. CASE e # None
    <2>1. op' = Attempt(n, e)
      BY <1>4 DEF NoteCombinedStatus
    <2> QED
      BY <1>1, <1>2, <1>4, <2>1, AttemptParts
  <1> QED
    BY <1>3, <1>4

(* An entry that is still that of the same deployment, up to its Binding.  *)
SameEntry(n) ==
    /\ Tracked(n) \in Entries
    /\ Tracked(n)' \in Entries
    /\ Tracked(n)'.uid = Tracked(n).uid
    /\ Tracked(n)'.stages = Tracked(n).stages
    /\ Tracked(n)'.activeIndex = Tracked(n).activeIndex
    /\ Tracked(n)'.activeBindingPolicyUID = Tracked(n).activeBindingPolicyUID

LEMMA KeptIsSame ==
  ASSUME TableInv, NEW n \in SBPs, Tracked(n)' = Tracked(n)
  PROVE  (Tracked(n) = None /\ Tracked(n)' = None) \/ SameEntry(n)
  BY DEF TableInv, Tracked, SameEntry

(* An item of a policy is known by its parts.                              *)
LEMMA PolicyItem ==
  ASSUME NEW item \in Items, NEW n \in SBPs
  PROVE  item = PolicyRef(n) <=> item[1] = "sbp" /\ item[2] = n
  BY DEF Items, PolicyRef

(* Whatever a worker calls the resolver for: its own policy is forgotten   *)
(* or noted, every other one stays as it is, up to its Binding.            *)
LEMMA ReconcileParts ==
  ASSUME TypeInv, NEW w \in Workers, Reconcile(w)
  PROVE  /\ op = None
         /\ op' \in Ops /\ ~op'.staging /\ op'.pc # "update"
         /\ \A n \in SBPs :
               IF worker[w].item # PolicyRef(n)
               THEN (Tracked(n) = None /\ Tracked(n)' = None) \/ SameEntry(n)
               ELSE /\ op'.sbp = n
                    /\ \/ /\ worker[w].obj = None
                          /\ Tracked(n)' = None
                          /\ op'.pc = "return" /\ ~op'.err
                       \/ /\ worker[w].obj \in SBPObjects
                          /\ Tracked(n)' \in Entries
                          /\ Tracked(n)'.uid = worker[w].obj.uid
                          /\ Tracked(n)'.stages = worker[w].obj.stages
                          /\ Tracked(n)'.activeIndex = ActiveStage(worker[w].obj)
                          /\ Tracked(n)'.activeBindingPolicyUID = NoUid
                          /\ op'.pc = IF ActiveStage(worker[w].obj) > 0 THEN "delete" ELSE "create"
  <1> DEFINE item == worker[w].item
             obj == worker[w].obj
  <1>1. item \in Items /\ obj \in Found(item) /\ TableInv
    BY DEF Reconcile, WorkersTyped, WorkerOK, TypeInv
  <1>2. ASSUME NEW m \in SBPs, OthersKept(m), NEW n \in SBPs, n # m
        PROVE  (Tracked(n) = None /\ Tracked(n)' = None) \/ SameEntry(n)
    BY <1>1, <1>2, KeptIsSame DEF OthersKept
  <1>3. ASSUME TableKept, NEW n \in SBPs
        PROVE  (Tracked(n) = None /\ Tracked(n)' = None) \/ SameEntry(n)
    BY <1>1, <1>3, KeptIsSame DEF TableKept, Tracked
  <1>4. ASSUME NEW m \in SBPs, OpAttempts(m)
        PROVE  op' \in Ops /\ ~op'.staging /\ op'.pc # "update"
    BY <1>4 DEF OpAttempts, OpBecomes
  <1>5. \A n \in SBPs : item = PolicyRef(n) <=> item[1] = "sbp" /\ item[2] = n
    BY <1>1, PolicyItem
  <1> HIDE DEF item, obj
  <1>6. CASE item[1] = "sbp" /\ obj = None /\ DeleteStagedBindingPolicy(item[2])
    BY <1>1, <1>2, <1>5, <1>6, ItemParts, DeletedParts DEF OpBecomes, item, obj
  <1>7. CASE item[1] = "sbp" /\ obj # None /\ NoteStagedBindingPolicy(item[2], obj)
    <2>1. obj \in SBPObjects /\ item[2] \in SBPs
      BY <1>1, <1>7, ItemParts DEF Found
    <2> QED
      BY <1>1, <1>2, <1>5, <1>7, <2>1, NotedParts DEF OpBecomes, item, obj
  <1>8. CASE item[1] = "bdg" /\ NoteBinding(item[2], obj)
    <2>1. obj \in BindingObjects /\ item[2] \in BPKeys
      BY <1>1, <1>8, ItemParts DEF Found
    <2>2. op = None
      BY <1>1, <1>8, <2>1, NoteBindingParts
    <2>3. PICK m \in SBPs :
             /\ OpAttempts(m)
             /\ TableKept \/ EntryBecomes(m, Tracked(m).activeIndex, Tracked(m).activeBindingPolicyUID)
      BY <1>1, <1>8, <2>1, NoteBindingParts
    <2>4. CASE TableKept
      BY <1>3, <1>4, <1>5, <1>8, <2>2, <2>3, <2>4 DEF item
    <2>5. CASE EntryBecomes(m, Tracked(m).activeIndex, Tracked(m).activeBindingPolicyUID)
      <3>1. SameEntry(m) /\ OthersKept(m)
        BY <2>5 DEF EntryBecomes, SameEntry
      <3> QED
        BY <1>2, <1>4, <1>5, <1>8, <2>2, <2>3, <3>1 DEF item
    <2> QED
      BY <2>3, <2>4, <2>5
  <1>9. CASE item[1] = "cs" /\ NoteCombinedStatus(obj)
    <2>1. obj \in CombinedStatuses
      BY <1>1, <1>9, ItemParts DEF Found
    <2> QED
      BY <1>1, <1>3, <1>4, <1>5, <1>9, <2>1, NoteCombinedStatusParts DEF item
  <1> QED
    BY <1>6, <1>7, <1>8, <1>9 DEF Reconcile, item, obj

-----------------------------------------------------------------------------
(* UIDs are handed out once, and only Create makes a BindingPolicy.        *)
BpMoves ==
    /\ nextUid \in Nat
    /\ nextUid' \in Nat
    /\ nextUid <= nextUid'
    /\ \A k \in BPKeys :
          \/ bp'[k] = None
          \/ bp'[k] = bp[k]
          \/ bp'[k].uid = nextUid /\ nextUid' = nextUid + 1

LEMMA OpStepsBpMoves ==
  ASSUME WdsTypeOK, TableInv, OpSteps
  PROVE  BpMoves
  <1> PICK n \in SBPs : op.sbp = n
    BY OpStepsBusy
  <1>1. nextUid \in Nat /\ bp \in [BPKeys -> BPObjects \cup {None}]
    BY DEF WdsTypeOK, Uids
  <1>2. CASE \E o \in Objects : CheckObject(o)
    <2>1. UNCHANGED <<bp, nextUid>>
      BY <1>2 DEF CheckObject, wdsVars
    <2> QED
      BY <1>1, <2>1 DEF BpMoves
  <1>3. CASE DeletePrevious
    BY <1>1, <1>3, DeletePreviousParts DEF BpMoves
  <1>4. CASE CreateActive
    <2> DEFINE key == Key(n, Entry, Entry.activeIndex)
               made == [uid |-> nextUid, owner |-> Entry.uid]
    <2>1. \/ UNCHANGED <<bp, nextUid>>
          \/ FreshUid /\ bp' = [bp EXCEPT ![key] = made]
      BY <1>4, CreateActiveParts
    <2>2. made.uid = nextUid
      OBVIOUS
    <2> HIDE DEF key, made
    <2> QED
      BY <1>1, <2>1, <2>2 DEF FreshUid, BpMoves
  <1>5. CASE GetPolicy
    BY <1>1, <1>5, GetPolicyParts DEF BpMoves
  <1>6. CASE UpdateStatus
    <2>1. UNCHANGED <<bp, nextUid>>
      BY <1>6 DEF UpdateStatus
    <2> QED
      BY <1>1, <2>1 DEF BpMoves
  <1> QED
    BY <1>2, <1>3, <1>4, <1>5, <1>6 DEF OpSteps

LEMMA NextBpMoves ==
  ASSUME TypeInv, [Next]_vars
  PROVE  BpMoves
  <1>1. /\ nextUid \in Nat /\ bp \in [BPKeys -> BPObjects \cup {None}]
        /\ WdsTypeOK /\ TableInv
    BY DEF TypeInv, WdsTypeOK, Uids
  <1>2. ASSUME UNCHANGED <<bp, nextUid>> PROVE BpMoves
    BY <1>1, <1>2 DEF BpMoves
  <1>3. CASE Environment
    <2>1. CASE \E n \in SBPs, stages \in StageLists : UserCreates(n, stages) \/ UserEdits(n, stages)
      BY <1>1, <2>1 DEF UserCreates, UserEdits, FreshUid, BpMoves
    <2>2. CASE \E n \in SBPs : UserDeletes(n)
      BY <1>2, <2>2 DEF UserDeletes
    <2>3. CASE \E o \in Objects : WorkloadChanges(o)
      BY <1>2, <2>3 DEF WorkloadChanges
    <2>4. CASE \E k \in BPKeys : CollectBP(k)
      BY <1>1, <2>4 DEF CollectBP, BpMoves
    <2>5. CASE \E k \in BPKeys : KubeStellar(k)
      BY <1>2, <2>5 DEF KubeStellar, KsBinds, KsRebinds, KsUnbinds, KsReports, KsRetracts
    <2> QED
      BY <1>3, <2>1, <2>2, <2>3, <2>4, <2>5 DEF Environment, WdsNext
  <1>4. CASE Informers
    BY <1>2, <1>4 DEF Informers, DeliverPolicy, DeliverBinding, DeliverStatus, wdsVars
  <1>5. CASE \E w \in Workers : WorkerStep(w)
    BY <1>2, <1>5 DEF WorkerStep, Get, ReadLister, Reconcile, Finish, wdsVars
  <1>6. CASE Resolve
    BY <1>1, <1>6, OpStepsBpMoves DEF Resolve
  <1>7. CASE (\E item \in delayed : Requeue(item)) \/ Crash \/ Panic \/ Restart \/ UNCHANGED vars
    BY <1>2, <1>7 DEF Requeue, Crash, Panic, Restart, vars, wdsVars
  <1> QED
    BY <1>3, <1>4, <1>5, <1>6, <1>7 DEF Next

-----------------------------------------------------------------------------
(* What users do to a policy: its spec changes with its generation, its    *)
(* status never does.                                                      *)
LEMMA UsersParts ==
  ASSUME WdsTypeOK, WdsNext, NEW n \in SBPs
  PROVE  \/ sbp'[n] = sbp[n]
         \/ sbp'[n] = None
         \/ /\ sbp[n] = None
            /\ sbp'[n] \in SBPObjects
            /\ sbp'[n].uid = nextUid /\ nextUid' = nextUid + 1
            /\ sbp'[n].active = None
         \/ /\ sbp[n] \in SBPObjects
            /\ sbp'[n] \in SBPObjects
            /\ sbp'[n].uid = sbp[n].uid
            /\ sbp'[n].gen = sbp[n].gen + 1
            /\ sbp'[n].active = sbp[n].active
  <1>1. ASSUME NEW m \in SBPs, NEW stages \in StageLists, UserCreates(m, stages)
        PROVE  \/ sbp'[n] = sbp[n]
               \/ /\ sbp[n] = None
                  /\ sbp'[n] \in SBPObjects
                  /\ sbp'[n].uid = nextUid /\ nextUid' = nextUid + 1
                  /\ sbp'[n].active = None
    <2> DEFINE new == [uid |-> nextUid, gen |-> 1, stages |-> stages, active |-> None]
    <2>1. stages \in Seq(Stages)
      BY WdsAssumption
    <2>2. new \in SBPObjects /\ new.uid = nextUid /\ new.active = None
      BY <2>1 DEF WdsTypeOK, SBPObjects
    <2>3. sbp' = [sbp EXCEPT ![m] = new] /\ sbp[m] = None /\ nextUid' = nextUid + 1
      BY <1>1 DEF UserCreates, FreshUid
    <2> HIDE DEF new
    <2> QED
      BY <2>2, <2>3 DEF WdsTypeOK
  <1>2. ASSUME NEW m \in SBPs, NEW stages \in StageLists, UserEdits(m, stages)
        PROVE  \/ sbp'[n] = sbp[n]
               \/ /\ sbp[n] \in SBPObjects
                  /\ sbp'[n] \in SBPObjects
                  /\ sbp'[n].uid = sbp[n].uid
                  /\ sbp'[n].gen = sbp[n].gen + 1
                  /\ sbp'[n].active = sbp[n].active
    <2> DEFINE restaged == [sbp[m] EXCEPT !.stages = stages]
               edited == [restaged EXCEPT !.gen = @ + 1]
    <2>1. sbp[m] \in SBPObjects
      BY <1>2 DEF UserEdits, WdsTypeOK
    <2>2. /\ restaged \in SBPObjects
          /\ restaged.uid = sbp[m].uid
          /\ restaged.gen = sbp[m].gen
          /\ restaged.active = sbp[m].active
      BY <2>1, WdsAssumption DEF SBPObjects
    <2>3. \A obj \in SBPObjects : LET y == [obj EXCEPT !.gen = @ + 1]
                                 IN  /\ y \in SBPObjects /\ y.uid = obj.uid
                                     /\ y.gen = obj.gen + 1 /\ y.active = obj.active
      BY DEF SBPObjects
    <2>4. sbp' = [sbp EXCEPT ![m].stages = stages, ![m].gen = @ + 1]
      BY <1>2 DEF UserEdits
    <2>5. sbp' = [sbp EXCEPT ![m] = edited]
      BY <2>4
    <2> HIDE DEF restaged
    <2>6. /\ edited \in SBPObjects
          /\ edited.uid = sbp[m].uid
          /\ edited.gen = sbp[m].gen + 1
          /\ edited.active = sbp[m].active
      BY <2>2, <2>3
    <2> HIDE DEF edited
    <2> QED
      BY <2>1, <2>5, <2>6 DEF WdsTypeOK
  <1>3. CASE \E m \in SBPs : UserDeletes(m)
    BY <1>3 DEF UserDeletes, WdsTypeOK
  <1>4. CASE \E o \in Objects : WorkloadChanges(o)
    BY <1>4 DEF WorkloadChanges
  <1>5. CASE \E k \in BPKeys : CollectBP(k) \/ KubeStellar(k)
    BY <1>5 DEF CollectBP, KubeStellar, KsBinds, KsRebinds, KsUnbinds, KsReports, KsRetracts
  <1> QED
    BY <1>1, <1>2, <1>3, <1>4, <1>5 DEF WdsNext

-----------------------------------------------------------------------------
(* If the UID of entry e is that of one of n's BindingPolicies, this was   *)
(* made for e, for a stage with one of the indices.                        *)
MadeFor(policies, n, e, indices) ==
    \A name \in StageNames :
        LET made == policies[<<n, name>>]
        IN  made # None /\ made.uid = e.activeBindingPolicyUID =>
                /\ made.owner = e.uid
                /\ \E i \in indices : i < Len(e.stages) /\ Stage(e, i).name = name

StagingUp(n) == op # None /\ op.sbp = n /\ op.staging

(* A stage-up counts up first; until its Create the UID is the old one.    *)
Indices(n, slack) ==
    LET i == Tracked(n).activeIndex
    IN  IF ~StagingUp(n) THEN {i, i + slack}
        ELSE IF op.pc \in {"delete", "create"} THEN {i - 1, i - 1 + slack}
        ELSE {i}

UidsBelow ==
    /\ \A k \in BPKeys : bp[k] # None => bp[k].uid < nextUid
    /\ \A n \in SBPs : Tracked(n) # None => Tracked(n).activeBindingPolicyUID < nextUid

UidInv(slack) ==
    /\ UidsBelow
    /\ \A n \in SBPs : Tracked(n) # None => MadeFor(bp, n, Tracked(n), Indices(n, slack))

(* What is read of a policy is still so when it is used.                   *)
ReadsHold ==
    /\ \A n \in SBPs : Tracked(n) # None \/ sbpCache[n] # None => sbp[n] # None
    /\ \A w \in Workers :
          worker[w].pc = "read" /\ worker[w].item[1] = "sbp" /\ worker[w].obj # None =>
              sbp[worker[w].item[2]] # None
    /\ op # None /\ op.pc = "update" => sbp[op.sbp] = op.got

(* No API call fails and users leave their policies as they made them.     *)
Undisturbed == {"fault", "edit", "delete"} \cap EventKinds = {}

-----------------------------------------------------------------------------
(* A policy that stays tracked with its UID, and is granted at least the   *)
(* indices it had.                                                         *)
SameDeployment(n) ==
    /\ Tracked(n) # None
    /\ Tracked(n)'.uid = Tracked(n).uid
    /\ Tracked(n)'.stages = Tracked(n).stages
    /\ Tracked(n)'.activeBindingPolicyUID = Tracked(n).activeBindingPolicyUID

UidSafe(n, slack) ==
    Tracked(n) # None =>
        /\ Tracked(n).activeBindingPolicyUID < nextUid
        /\ MadeFor(bp, n, Tracked(n), Indices(n, slack))

LEMMA UidKept ==
  ASSUME WdsTypeOK, TableInv, BpMoves, NEW slack \in {0, 1}, UidInv(slack),
         NEW n \in SBPs, SameDeployment(n), Indices(n, slack) \subseteq Indices(n, slack)'
  PROVE  UidSafe(n, slack)'
  <1>1. /\ MadeFor(bp, n, Tracked(n), Indices(n, slack))
        /\ Tracked(n).activeBindingPolicyUID < nextUid
    BY DEF UidInv, UidsBelow, SameDeployment
  <1>2. Tracked(n).activeBindingPolicyUID \in Nat
    BY DEF SameDeployment, TableInv, Tracked, Entries
  <1>3. Tracked(n)'.activeBindingPolicyUID < nextUid'
    BY <1>1, <1>2 DEF BpMoves, SameDeployment
  <1>4. MadeFor(bp', n, Tracked(n)', Indices(n, slack)')
    <2> SUFFICES ASSUME NEW name \in StageNames,
                        bp'[<<n, name>>] # None,
                        bp'[<<n, name>>].uid = Tracked(n)'.activeBindingPolicyUID
                 PROVE  /\ bp'[<<n, name>>].owner = Tracked(n)'.uid
                        /\ \E i \in Indices(n, slack)' :
                              i < Len(Tracked(n)'.stages) /\ Stage(Tracked(n)', i).name = name
      BY DEF MadeFor
    <2>1. <<n, name>> \in BPKeys
      BY DEF BPKeys
    <2>2. bp'[<<n, name>>] = bp[<<n, name>>]
      BY <1>1, <1>2, <2>1 DEF BpMoves, SameDeployment
    <2> QED
      BY <1>1, <2>2 DEF MadeFor, SameDeployment, Stage
  <1> QED
    BY <1>3, <1>4 DEF UidSafe

LEMMA UidInvSafe ==
  ASSUME BpMoves, WdsTypeOK, NEW slack \in {0, 1}, UidInv(slack),
         \A n \in SBPs : UidSafe(n, slack)'
  PROVE  UidInv(slack)'
  <1>1. \A k \in BPKeys : bp'[k] # None => bp'[k].uid < nextUid'
    BY DEF BpMoves, UidInv, UidsBelow, WdsTypeOK, BPObjects, Uids
  <1> QED
    BY <1>1 DEF UidInv, UidsBelow, UidSafe

(* Of the policy an operation is at work on, and of the others.            *)
LEMMA IndicesOfOthers ==
  ASSUME NEW n \in SBPs, NEW slack \in {0, 1}, Tracked(n)' = Tracked(n),
         ~StagingUp(n), ~StagingUp(n)'
  PROVE  Indices(n, slack) \subseteq Indices(n, slack)'
  BY DEF Indices

LEMMA FailIndices ==
  ASSUME NEW n \in SBPs, op.sbp = n, TableInv, op # None, op.pc # "return", Fail, NEW slack \in {0, 1},
         op.pc \in {"get", "update"} /\ op.staging => slack = 1
  PROVE  SameDeployment(n) /\ Indices(n, slack) \subseteq Indices(n, slack)'
  <1> DEFINE i == Tracked(n).activeIndex
  <1>1. n \in SBPs /\ Entry = Tracked(n) /\ Tracked(n) \in Entries /\ i \in Nat
    BY InProgressTyped DEF Entry, Tracked
  <1>2. /\ EntryBecomes(n, IF op.staging THEN i - 1 ELSE i, Entry.activeBindingPolicyUID)
        /\ OpBecomes(n, "return", FALSE)
    BY <1>1, FailParts
  <1>3. SameDeployment(n)
    BY <1>1, <1>2, ResolverAssumption DEF SameDeployment, EntryBecomes
  <1>4. ~StagingUp(n)'
    BY <1>2 DEF StagingUp, OpBecomes
  <1>5. Indices(n, slack)' = {Tracked(n)'.activeIndex, Tracked(n)'.activeIndex + slack}
    BY <1>4 DEF Indices
  <1>6. CASE op.staging
    <2>1. StagingUp(n) /\ Tracked(n)'.activeIndex = i - 1 /\ op.pc \in {"delete", "create", "get", "update"}
      BY <1>2, <1>6 DEF StagingUp, EntryBecomes, TableInv, OpOK
    <2>2. CASE op.pc \in {"delete", "create"}
      BY <1>3, <1>5, <2>1, <2>2 DEF Indices
    <2>3. CASE op.pc \in {"get", "update"}
      <3>1. Indices(n, slack) = {i} /\ slack = 1
        BY <1>6, <2>1, <2>3 DEF Indices
      <3>2. i - 1 + 1 = i
        BY <1>1
      <3> QED
        BY <1>3, <1>5, <2>1, <3>1, <3>2
    <2> QED
      BY <1>3, <2>1, <2>2, <2>3
  <1>7. CASE ~op.staging
    <2>1. ~StagingUp(n) /\ Tracked(n)'.activeIndex = i
      BY <1>2, <1>7 DEF StagingUp, EntryBecomes
    <2> QED
      BY <1>3, <1>5, <2>1 DEF Indices
  <1> QED
    BY <1>6, <1>7

(* The end of an operation is certain once it has deployed a stage.        *)
EndIsSure ==
    /\ Undisturbed
    /\ op # None /\ op.pc = "get" => sbp[op.sbp] # None
    /\ op # None /\ op.pc = "update" => sbp[op.sbp] = op.got

LEMMA CreatedUid ==
  ASSUME NEW n \in SBPs, op.sbp = n, WdsTypeOK, TableInv, NEW slack \in {0, 1}, UidInv(slack),
         op # None, op.pc = "create", Entry.activeIndex < Len(Entry.stages),
         FreshUid,
         bp' = [bp EXCEPT ![Key(n, Entry, Entry.activeIndex)] =
                             [uid |-> nextUid, owner |-> Entry.uid]],
         EntryBecomes(n, Entry.activeIndex, nextUid),
         OpBecomes(n, "get", op.staging)
  PROVE  UidSafe(n, slack)'
  <1> DEFINE i == Entry.activeIndex
             current == Stage(Entry, i).name
             made == [uid |-> nextUid, owner |-> Entry.uid]
  <1>1. n \in SBPs /\ Entry = Tracked(n) /\ Tracked(n) \in Entries /\ nextUid \in Nat
    BY InProgressTyped DEF Entry, Tracked, WdsTypeOK, Uids
  <1>2. /\ Tracked(n)'.uid = Entry.uid
        /\ Tracked(n)'.stages = Entry.stages
        /\ Tracked(n)'.activeIndex = i
        /\ Tracked(n)'.activeBindingPolicyUID = nextUid
    BY <1>1 DEF EntryBecomes
  <1>3. i \in Indices(n, slack)'
    BY <1>2 DEF Indices, StagingUp, OpBecomes
  <1>4. bp' = [bp EXCEPT ![<<n, current>>] = made] /\ made.owner = Entry.uid
    BY DEF Key
  <1> HIDE DEF made
  <1>5. ASSUME NEW name \in StageNames, bp'[<<n, name>>] # None, bp'[<<n, name>>].uid = nextUid
        PROVE  name = current /\ bp'[<<n, name>>].owner = Entry.uid
    <2>1. <<n, name>> \in BPKeys
      BY <1>1 DEF BPKeys
    <2>2. CASE name # current
      <3>1. bp'[<<n, name>>] = bp[<<n, name>>]
        BY <1>4, <2>1, <2>2 DEF WdsTypeOK
      <3>2. bp[<<n, name>>].uid < nextUid
        BY <1>5, <2>1, <3>1 DEF UidInv, UidsBelow
      <3> QED
        BY <1>1, <1>5, <3>1, <3>2
    <2>3. CASE name = current
      <3>1. bp'[<<n, name>>] = made
        BY <1>4, <2>1, <2>3 DEF WdsTypeOK
      <3> QED
        BY <1>4, <2>3, <3>1
    <2> QED
      BY <2>2, <2>3
  <1>6. MadeFor(bp', n, Tracked(n)', Indices(n, slack)')
    BY <1>2, <1>3, <1>5 DEF MadeFor, Stage
  <1>7. nextUid < nextUid'
    BY <1>1 DEF FreshUid
  <1> QED
    BY <1>2, <1>6, <1>7 DEF UidSafe

(* A step of the operation keeps the UIDs of its own policy and of others. *)
LEMMA OpStepsUids ==
  ASSUME WdsTypeOK, TableInv, OpSteps, NEW slack \in {0, 1}, UidInv(slack),
         slack = 0 => EndIsSure
  PROVE  UidInv(slack)'
  <1> PICK n \in SBPs : op.sbp = n
    BY OpStepsBusy
  <1>1. op # None /\ op.pc # "return" /\ op \in Ops /\ BpMoves
    BY OpStepsBusy, OpStepsBpMoves DEF TableInv
  <1>2. Entry = Tracked(n) /\ Tracked(n) \in Entries /\ Tracked(n) # None
    BY <1>1, InProgressTyped, ResolverAssumption DEF Entry, Tracked
  <1>3. op'.sbp = n /\ OthersKept(n)
    BY OpStepsSame
  <1>4. ASSUME NEW m \in SBPs, m # n PROVE UidSafe(m, slack)'
    <2>1. Tracked(m)' = Tracked(m) /\ ~StagingUp(m) /\ ~StagingUp(m)'
      BY <1>3, <1>4 DEF OthersKept, StagingUp
    <2>2. CASE Tracked(m) = None
      BY <2>1, <2>2 DEF UidSafe
    <2>3. CASE Tracked(m) # None
      BY <1>1, <2>1, <2>3, IndicesOfOthers, UidKept DEF SameDeployment
    <2> QED
      BY <2>2, <2>3
  <1> SUFFICES UidSafe(n, slack)'
    BY <1>1, <1>4, UidInvSafe
  <1>5. ASSUME SameDeployment(n), Indices(n, slack) \subseteq Indices(n, slack)'
        PROVE  UidSafe(n, slack)'
    BY <1>1, <1>5, UidKept
  <1>6. ASSUME Fail, op.pc \in {"get", "update"} /\ op.staging => slack = 1
        PROVE  UidSafe(n, slack)'
    BY <1>1, <1>5, <1>6, FailIndices
  <1>7. ASSUME TableKept, StagingUp(n)' => StagingUp(n),
               StagingUp(n) /\ StagingUp(n)' =>
                   (op.pc \in {"delete", "create"} <=> op'.pc \in {"delete", "create"}),
               StagingUp(n) /\ ~StagingUp(n)' => op.pc \in {"get", "update"}
        PROVE  UidSafe(n, slack)'
    <2>1. Tracked(n)' = Tracked(n)
      BY <1>7 DEF TableKept, Tracked
    <2>2. Indices(n, slack) \subseteq Indices(n, slack)'
      BY <1>7, <2>1 DEF Indices
    <2> QED
      BY <1>2, <1>5, <2>1, <2>2 DEF SameDeployment
  <1>8. CASE \E o \in Objects : CheckObject(o)
    <2>1. ~StagingUp(n)
      BY <1>8, CheckObjectParts DEF StagingUp
    <2>2. CASE TableKept /\ ~op'.staging
      BY <1>7, <2>1, <2>2 DEF StagingUp
    <2>3. CASE /\ EntryBecomes(n, Entry.activeIndex + 1, Entry.activeBindingPolicyUID)
               /\ OpBecomes(n, "delete", TRUE)
      <3>1. SameDeployment(n) /\ Tracked(n)'.activeIndex - 1 = Tracked(n).activeIndex
        BY <1>2, <2>3 DEF SameDeployment, EntryBecomes, Entries
      <3>2. StagingUp(n)' /\ op'.pc = "delete"
        BY <2>3, ResolverAssumption DEF StagingUp, OpBecomes
      <3>3. Indices(n, slack) \subseteq Indices(n, slack)'
        BY <2>1, <3>1, <3>2 DEF Indices
      <3> QED
        BY <1>5, <3>1, <3>3
    <2> QED
      BY <1>8, <2>2, <2>3, CheckObjectParts DEF OpBecomes
  <1>9. CASE DeletePrevious
    <2>1. op.pc = "delete" /\ (Fail \/ (TableKept /\ OpBecomes(n, "create", op.staging)))
      BY <1>9, DeletePreviousParts
    <2>2. CASE Fail
      BY <1>6, <2>1, <2>2
    <2>3. CASE TableKept /\ OpBecomes(n, "create", op.staging)
      <3>1. (StagingUp(n)' <=> StagingUp(n)) /\ op'.pc = "create"
        BY <1>1, <2>3, ResolverAssumption DEF StagingUp, OpBecomes
      <3> QED
        BY <1>7, <2>1, <2>3, <3>1
    <2> QED
      BY <2>1, <2>2, <2>3
  <1>10. CASE CreateActive
    <2> DEFINE created == [bp EXCEPT ![Key(n, Entry, Entry.activeIndex)] =
                             [uid |-> nextUid, owner |-> Entry.uid]]
    <2>1. /\ op.pc = "create" /\ Entry.activeIndex < Len(Entry.stages)
          /\ \/ Fail
             \/ /\ FreshUid
                /\ bp' = created
                /\ EntryBecomes(n, Entry.activeIndex, nextUid)
                /\ OpBecomes(n, "get", op.staging)
      BY <1>10, CreateActiveParts
    <2>2. CASE Fail
      BY <1>6, <2>1, <2>2
    <2>3. CASE ~Fail
      BY <1>1, <2>1, <2>3, CreatedUid
    <2> QED
      BY <2>2, <2>3
  <1>11. CASE GetPolicy
    <2>1. /\ op.pc = "get"
          /\ \/ TableKept /\ OpBecomes(n, "update", op.staging)
             \/ Fail /\ (sbp[n] = None \/ Event("fault"))
      BY <1>11, GetPolicyParts
    <2>2. CASE Fail /\ (sbp[n] = None \/ Event("fault"))
      <3>1. slack = 1
        BY <1>1, <2>1, <2>2 DEF EndIsSure, Undisturbed, Event
      <3> QED
        BY <1>6, <2>2, <3>1
    <2>3. CASE TableKept /\ OpBecomes(n, "update", op.staging)
      BY <1>1, <1>7, <2>1, <2>3 DEF StagingUp, OpBecomes
    <2> QED
      BY <2>1, <2>2, <2>3
  <1>12. CASE UpdateStatus
    <2>1. /\ op.pc = "update"
          /\ \/ /\ TableKept
                /\ IF op.staging THEN OpBecomes(n, "return", FALSE) ELSE OpAttempts(n)
             \/ Fail /\ (sbp[n] # op.got \/ Event("fault"))
      BY <1>12, UpdateStatusParts
    <2>2. CASE Fail /\ (sbp[n] # op.got \/ Event("fault"))
      <3>1. slack = 1
        BY <1>1, <2>1, <2>2 DEF EndIsSure, Undisturbed, Event
      <3> QED
        BY <1>6, <2>2, <3>1
    <2>3. CASE TableKept /\ (IF op.staging THEN OpBecomes(n, "return", FALSE) ELSE OpAttempts(n))
      <3>1. ~StagingUp(n)'
        BY <2>3 DEF StagingUp, OpBecomes, OpAttempts
      <3> QED
        BY <1>7, <2>1, <2>3, <3>1
    <2> QED
      BY <2>1, <2>2, <2>3
  <1> QED
    BY <1>8, <1>9, <1>10, <1>11, <1>12 DEF OpSteps

LEMMA NextUids ==
  ASSUME TypeInv, [Next]_vars, NEW slack \in {0, 1}, UidInv(slack), slack = 0 => EndIsSure
  PROVE  UidInv(slack)'
  <1>1. WdsTypeOK /\ TableInv /\ BpMoves
    BY NextBpMoves DEF TypeInv
  <1>2. ASSUME NEW n \in SBPs, SameEntry(n), ~StagingUp(n), ~StagingUp(n)'
        PROVE  UidSafe(n, slack)'
    <2>1. SameDeployment(n)
      BY <1>2, ResolverAssumption DEF SameEntry, SameDeployment
    <2>2. Indices(n, slack) \subseteq Indices(n, slack)'
      BY <1>2 DEF SameEntry, Indices
    <2> QED
      BY <1>1, <2>1, <2>2, UidKept
  <1>3. ASSUME UNCHANGED <<stagedBindingPolicies, op>>
        PROVE  UidInv(slack)'
    <2>1. ASSUME NEW n \in SBPs PROVE UidSafe(n, slack)'
      <3>1. Tracked(n)' = Tracked(n) /\ Indices(n, slack)' = Indices(n, slack)
        BY <1>3 DEF Tracked, Indices, StagingUp
      <3>2. CASE Tracked(n) = None
        BY <3>1, <3>2 DEF UidSafe
      <3>3. CASE Tracked(n) # None
        BY <1>1, <3>1, <3>3, UidKept DEF SameDeployment
      <3> QED
        BY <3>2, <3>3
    <2> QED
      BY <1>1, <2>1, UidInvSafe
  <1>4. ASSUME LoseMemory PROVE UidInv(slack)'
    <2>1. \A n \in SBPs : Tracked(n)' = None
      BY <1>4 DEF LoseMemory, Tracked
    <2> QED
      BY <1>1, <2>1, UidInvSafe DEF UidSafe
  <1>5. CASE Environment \/ Informers \/ (\E item \in delayed : Requeue(item)) \/ Restart \/ UNCHANGED vars
    BY <1>3, <1>5
    DEF Environment, Informers, DeliverPolicy, DeliverBinding, DeliverStatus, Requeue, Restart, vars, resolverVars
  <1>6. ASSUME NEW w \in Workers, WorkerStep(w) PROVE UidInv(slack)'
    <2>1. CASE (\E item \in dirty : Get(w, item)) \/ ReadLister(w)
      BY <1>3, <2>1 DEF Get, ReadLister, resolverVars
    <2>2. CASE Reconcile(w)
      <3>1. ASSUME NEW n \in SBPs PROVE UidSafe(n, slack)'
        <4>1. CASE Tracked(n)' = None
          BY <4>1 DEF UidSafe
        <4>2. CASE Tracked(n)'.activeBindingPolicyUID = NoUid
          BY <1>1, <4>2, NextBpMoves DEF UidSafe, MadeFor, BpMoves, NoUid, WdsTypeOK, BPObjects, Uids, BPKeys
        <4>3. CASE SameEntry(n)
          BY <1>2, <2>2, <4>3, ReconcileParts DEF StagingUp
        <4> QED
          BY <2>2, <4>1, <4>2, <4>3, ReconcileParts
      <3> QED
        BY <1>1, <3>1, UidInvSafe
    <2>3. CASE Finish(w)
      <3>1. op # None /\ op.pc = "return" /\ op' = None /\ UNCHANGED stagedBindingPolicies
        BY <2>3 DEF Finish, At
      <3>2. ASSUME NEW n \in SBPs PROVE UidSafe(n, slack)'
        <4>1. ~StagingUp(n) /\ ~StagingUp(n)'
          BY <1>1, <3>1 DEF StagingUp, TableInv, OpOK
        <4>2. Tracked(n)' = Tracked(n)
          BY <3>1 DEF Tracked
        <4> QED
          BY <1>1, <1>2, <4>1, <4>2, KeptIsSame DEF UidSafe
      <3> QED
        BY <1>1, <3>2, UidInvSafe
    <2> QED
      BY <1>6, <2>1, <2>2, <2>3 DEF WorkerStep
  <1>7. CASE Resolve
    BY <1>1, <1>7, OpStepsUids DEF Resolve
  <1>8. CASE Crash \/ Panic
    BY <1>4, <1>8 DEF Crash, Panic
  <1> QED
    BY <1>5, <1>6, <1>7, <1>8 DEF Next

LEMMA InitUids ==
  ASSUME Init, NEW slack \in {0, 1}
  PROVE  UidInv(slack)
  BY DEF Init, WdsInit, ResolverStart, UidInv, UidsBelow, Tracked

-----------------------------------------------------------------------------
(* Whatever crashes, edits, deletions, faults and races there are, between *)
(* operations the UID in the table is that of a BindingPolicy made for the *)
(* tracked incarnation of the policy, for the active stage or the one that *)
(* follows it.                                                             *)
THEOREM UidsStayNear == Spec => []UidNearStage
  <1>1. Init => TypeInv /\ UidInv(1)
    BY InitTyped, InitUids
  <1>2. TypeInv /\ UidInv(1) /\ [Next]_vars => TypeInv' /\ UidInv(1)'
    BY NextTyped, NextUids
  <1>3. UidInv(1) => UidNearStage
    <2> SUFFICES ASSUME UidInv(1), op = None, NEW n \in SBPs, NEW name \in StageNames,
                        Tracked(n) # None, Deployed(n, name),
                        bp[<<n, name>>].uid = Tracked(n).activeBindingPolicyUID
                 PROVE  LET e == Tracked(n)
                        IN  /\ bp[<<n, name>>].owner = e.uid
                            /\ \E i \in {e.activeIndex, e.activeIndex + 1} :
                                   i < Len(e.stages) /\ Stage(e, i).name = name
      BY DEF UidNearStage
    <2> QED
      BY DEF UidInv, MadeFor, Indices, StagingUp, Deployed
  <1> QED
    BY <1>1, <1>2, <1>3, PTL DEF Spec

-----------------------------------------------------------------------------
(* Undisturbed, what an operation has read stays so.                       *)
LEMMA UsersKeepPolicies ==
  ASSUME Undisturbed, WdsTypeOK, WdsNext, NEW n \in SBPs, sbp[n] # None
  PROVE  sbp'[n] = sbp[n]
  <1>1. ~(\E m \in SBPs, stages \in StageLists : UserEdits(m, stages))
    BY DEF UserEdits, Event, Undisturbed
  <1>2. ~(\E m \in SBPs : UserDeletes(m))
    BY DEF UserDeletes, Event, Undisturbed
  <1>3. CASE \E m \in SBPs, stages \in StageLists : UserCreates(m, stages)
    BY <1>3 DEF UserCreates, WdsTypeOK
  <1>4. CASE \E o \in Objects : WorkloadChanges(o)
    BY <1>4 DEF WorkloadChanges
  <1>5. CASE \E k \in BPKeys : CollectBP(k) \/ KubeStellar(k)
    BY <1>5 DEF CollectBP, KubeStellar, KsBinds, KsRebinds, KsUnbinds, KsReports, KsRetracts
  <1> QED
    BY <1>1, <1>2, <1>3, <1>4, <1>5 DEF WdsNext

LEMMA ReadsMakeSure ==
  ASSUME Undisturbed, TypeInv, ReadsHold
  PROVE  EndIsSure
  <1>1. ASSUME op # None, op.pc = "get" PROVE sbp[op.sbp] # None
    <2>1. op.sbp \in SBPs
      BY <1>1, InProgressTyped DEF TypeInv
    <2> QED
      BY <1>1, <2>1 DEF TypeInv, TableInv, OpOK, ReadsHold, Tracked, Entry
  <1> QED
    BY <1>1 DEF EndIsSure, ReadsHold

LEMMA NextReads ==
  ASSUME Undisturbed, TypeInv, ReadsHold, [Next]_vars
  PROVE  ReadsHold'
  <1>1. WdsTypeOK /\ TableInv
    BY DEF TypeInv
  <1>2. ASSUME op # None, op.pc = "update" PROVE op.sbp \in SBPs /\ op.got # None
    BY <1>1, <1>2, InProgressTyped DEF TableInv, OpOK
  <1>3. ASSUME NEW w \in Workers, worker[w].pc = "read", worker[w].item[1] = "sbp"
        PROVE  worker[w].item[2] \in SBPs
    <2>1. worker[w].item \in Items
      BY <1>3 DEF TypeInv, WorkersTyped, WorkerOK
    <2> QED
      BY <1>3, <2>1, ItemParts
  <1>4. CASE Environment
    <2>1. \A n \in SBPs : sbp[n] # None => sbp'[n] = sbp[n]
      BY <1>1, <1>4, UsersKeepPolicies DEF Environment
    <2> QED
      BY <1>2, <1>3, <1>4, <2>1 DEF Environment, resolverVars, cacheVars, queueVars, ReadsHold, Tracked
  <1>5. CASE Informers
    <2>1. ASSUME NEW n \in SBPs, DeliverPolicy(n) PROVE ReadsHold'
      <3>1. \A m \in SBPs : sbpCache'[m] \in {None, sbp[m], sbpCache[m]}
        BY <2>1 DEF DeliverPolicy, Seen, TypeInv, CachesTyped
      <3> QED
        BY <2>1, <3>1 DEF DeliverPolicy, resolverVars, ReadsHold, Tracked
    <2>2. ASSUME NEW k \in BPKeys, DeliverBinding(k) PROVE ReadsHold'
      BY <2>2 DEF DeliverBinding, resolverVars, ReadsHold, Tracked
    <2>3. ASSUME NEW o \in Objects, NEW u \in 1..(nextUid - 1), DeliverStatus(o, u) PROVE ReadsHold'
      BY <2>3 DEF DeliverStatus, wdsVars, resolverVars, ReadsHold, Tracked
    <2> QED
      BY <1>5, <2>1, <2>2, <2>3 DEF Informers
  <1>6. ASSUME NEW w \in Workers, WorkerStep(w) PROVE ReadsHold'
    <2>1. ASSUME NEW item \in dirty, Get(w, item) PROVE ReadsHold'
      BY <2>1 DEF Get, Busy, wdsVars, resolverVars, cacheVars, ReadsHold, Tracked, TypeInv, WorkersTyped
    <2>2. CASE ReadLister(w)
      <3> DEFINE item == worker[w].item
                 found == Lookup(item) \ {None}
      <3>1. item \in Items
        BY <2>2 DEF ReadLister, TypeInv, WorkersTyped, WorkerOK
      <3>2. \A obj \in found : item[1] = "sbp" => sbp[item[2]] # None
        BY <3>1, ItemParts DEF Lookup, GetFromStore, ReadsHold
      <3>3. \/ worker' = [worker EXCEPT ![w] = IdleWorker]
            \/ worker' = [worker EXCEPT ![w] = Busy("read", item, None)]
            \/ \E obj \in found : worker' = [worker EXCEPT ![w] = Busy("read", item, obj)]
        BY <2>2 DEF ReadLister
      <3> HIDE DEF item, found
      <3>4. \A v \in Workers :
               \/ worker'[v] = worker[v]
               \/ worker'[v].pc = "idle"
               \/ worker'[v].item = item /\ worker'[v].obj \in found \cup {None}
        BY <3>3 DEF IdleWorker, Busy, TypeInv, WorkersTyped
      <3> QED
        BY <2>2, <3>2, <3>4 DEF ReadLister, wdsVars, resolverVars, cacheVars, ReadsHold, Tracked
    <2>3. CASE Reconcile(w)
      <3>1. \A v \in Workers : worker'[v] = worker[v] \/ worker'[v].pc = "resolving"
        BY <2>3 DEF Reconcile, Busy, TypeInv, WorkersTyped
      <3>2. \A n \in SBPs : Tracked(n)' # None => sbp[n] # None
        <4> TAKE n \in SBPs
        <4>1. worker[w].pc = "read"
          BY <2>3 DEF Reconcile
        <4>2. CASE worker[w].item # PolicyRef(n)
          BY <2>3, <4>2, ReconcileParts, ResolverAssumption DEF ReadsHold, SameEntry
        <4>3. CASE worker[w].item = PolicyRef(n)
          <5>1. worker[w].item[1] = "sbp" /\ worker[w].item[2] = n
            BY <4>3 DEF PolicyRef
          <5>2. Tracked(n)' = None \/ worker[w].obj # None
            BY <2>3, <4>3, ReconcileParts, WdsAssumption
          <5> QED
            BY <4>1, <5>1, <5>2 DEF ReadsHold
        <4> QED
          BY <4>2, <4>3
      <3>3. op'.pc # "update"
        BY <2>3, ReconcileParts
      <3> QED
        BY <2>3, <3>1, <3>2, <3>3 DEF Reconcile, wdsVars, cacheVars, ReadsHold
    <2>4. CASE Finish(w)
      <3>1. \A v \in Workers : worker'[v] = worker[v] \/ worker'[v].pc = "idle"
        BY <2>4 DEF Finish, IdleWorker, Busy, TypeInv, WorkersTyped
      <3> QED
        BY <2>4, <3>1 DEF Finish, wdsVars, cacheVars, ReadsHold, Tracked
    <2> QED
      BY <1>6, <2>1, <2>2, <2>3, <2>4 DEF WorkerStep
  <1>7. CASE Resolve
    <2>1. OpSteps /\ UNCHANGED <<cacheVars, queueVars>>
      BY <1>7 DEF Resolve
    <2> PICK n \in SBPs : op.sbp = n
      BY <1>1, <2>1, OpStepsBusy
    <2>2. \A m \in SBPs : sbp[m] # None => sbp'[m] # None
      BY <1>1, <2>1, OpStepsSame, WdsAssumption DEF SpecSame
    <2>3. \A m \in SBPs : Tracked(m)' # None => Tracked(m) # None
      BY <1>1, <2>1, OpStepsSame, ResolverAssumption DEF OthersKept, TracksSame
    <2>4. op'.sbp = n /\ (op'.pc = "update" => op'.got = sbp'[n])
      BY <1>1, <2>1, OpStepsSame
    <2> QED
      BY <1>3, <2>1, <2>2, <2>3, <2>4 DEF cacheVars, queueVars, ReadsHold
  <1>8. CASE \E item \in delayed : Requeue(item)
    BY <1>8 DEF Requeue, wdsVars, resolverVars, cacheVars, ReadsHold, Tracked
  <1>9. CASE Crash \/ Panic
    <2>1. LoseMemory
      BY <1>9 DEF Crash, Panic
    <2> QED
      BY <2>1 DEF LoseMemory, IdleWorker, Busy, ReadsHold, Tracked
  <1>10. CASE Restart
    BY <1>10 DEF Restart, wdsVars, resolverVars, ReadsHold, Tracked
  <1>11. CASE UNCHANGED vars
    BY <1>11 DEF vars, wdsVars, resolverVars, cacheVars, queueVars, ReadsHold, Tracked
  <1> QED
    BY <1>4, <1>5, <1>6, <1>7, <1>8, <1>9, <1>10, <1>11 DEF Next

(* When no API call fails and users leave their policies alone, the UID in *)
(* the table is that of the active stage, whatever events, crashes, panics *)
(* and interleavings of workers there are.                                 *)
THEOREM UidsTrackStages ==
  ASSUME Undisturbed
  PROVE  Spec => []UidTracksStage
  <1> DEFINE Inv == TypeInv /\ ReadsHold /\ UidInv(0)
  <1>1. Init => Inv
    <2>1. Init => ReadsHold
      BY DEF Init, WdsInit, ResolverStart, IdleWorker, Busy, ReadsHold, Tracked
    <2> QED
      BY <2>1, InitTyped, InitUids
  <1>2. Inv /\ [Next]_vars => Inv'
    BY NextTyped, NextReads, ReadsMakeSure, NextUids
  <1>3. Inv => UidTracksStage
    <2> SUFFICES ASSUME Inv, op = None, NEW n \in SBPs, NEW name \in StageNames,
                        Tracked(n) # None, Deployed(n, name),
                        bp[<<n, name>>].uid = Tracked(n).activeBindingPolicyUID
                 PROVE  LET e == Tracked(n)
                        IN  /\ bp[<<n, name>>].owner = e.uid
                            /\ e.activeIndex < Len(e.stages)
                            /\ Stage(e, e.activeIndex).name = name
      BY DEF UidTracksStage
    <2>1. Tracked(n).activeIndex \in Nat
      BY DEF TypeInv, TableInv, Tracked, Entries
    <2> QED
      BY <2>1 DEF UidInv, MadeFor, Indices, StagingUp, Deployed
  <1> QED
    BY <1>1, <1>2, <1>3, PTL DEF Spec
=============================================================================
