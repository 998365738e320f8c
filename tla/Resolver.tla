------------------------------- MODULE Resolver -------------------------------
(***************************************************************************)
(* The resolver of pkg/staged-binding-policy/resolver.go: the table of     *)
(* tracked StagedBindingPolicies and the operations that deploy a stage    *)
(* and move to the next one.                                               *)
(*                                                                         *)
(* Every operation runs under the resolver's mutex, so at most one is in   *)
(* progress: `op' is the operation that holds the mutex, None when it is   *)
(* free.  An operation is several steps because it makes several calls to  *)
(* the API server, and reads the lister once per object; the rest of the   *)
(* world moves between these.  Indices are those of the code, from 0.      *)
(***************************************************************************)
EXTENDS Wds, Selection

CONSTANT
    OwnerOf    \* the tracked policy a key's name splits to, None if malformed

VARIABLES
    stagedBindingPolicies,   \* the resolver's table
    op,                      \* operation that holds the mutex
    csCache                  \* store behind combinedStatusLister

resolverVars == <<stagedBindingPolicies, op>>

ASSUME OwnerAssumption == OwnerOf \in [BPKeys -> SBPs \cup {None}] /\ None \notin SBPs

-----------------------------------------------------------------------------
Entries == [uid: Uids, stages: Seq(Stages), activeIndex: Nat,
            activeBindingPolicyUID: Nat, bindingSpec: SUBSET Objects]

\* `staging' holds inside stageUpLocked, `todo' are the objects whose condition
\* is still to be checked, `got' is the object updateStatus read, `err' the result.
Ops == [sbp: SBPs, pc: {"delete", "create", "get", "update", "attempt", "return"},
        staging: BOOLEAN, todo: SUBSET Objects, got: SBPObjects \cup {None},
        err: BOOLEAN]

ResolverTypeOK ==
    /\ stagedBindingPolicies \in [SBPs -> Entries \cup {None}]
    /\ op \in Ops \cup {None}
    /\ csCache \in SUBSET CombinedStatuses

ASSUME ResolverAssumption == None \notin Entries /\ None \notin Ops

\* What a new process starts with.
ResolverStart ==
    /\ stagedBindingPolicies = [n \in SBPs |-> None]
    /\ op = None

-----------------------------------------------------------------------------
Stage(e, i) == e.stages[i + 1]

Key(n, e, i) == <<n, Stage(e, i).name>>

\* The objects of a workload that pass a stage's filter.
FilterWorkload(workload, stage) == workload \cap stage.filter

OpAt(n, pc, staging) ==
    [sbp |-> n, pc |-> pc, staging |-> staging, todo |-> {}, got |-> None, err |-> FALSE]

Returns(n) == OpAt(n, "return", FALSE)

\* attemptConditionLocked up to its loop over the filtered objects.
Attempt(n, e) ==
    LET stage == Stage(e, e.activeIndex)
        filtered == FilterWorkload(e.bindingSpec, stage)
    IN  IF e.activeIndex >= Len(e.stages) THEN Returns(n)
        ELSE IF ~stage.cond \/ filtered = {} THEN Returns(n)
        ELSE [OpAt(n, "attempt", FALSE) EXCEPT !.todo = filtered]

\* Mutants: the first stage is never deleted; a stage-up is not deployed.
KeepsFirstStage(n, activeIndex, staging) ==
    OpAt(n, IF activeIndex > 1 THEN "delete" ELSE "create", staging)

StagesUpOnPaper(n, activeIndex, staging) ==
    IF staging THEN Returns(n) ELSE OpAt(n, "create", staging)

\* Entry to ensureActiveStageLocked.
EnsureActiveStage(n, activeIndex, staging) ==
    OpAt(n, IF activeIndex > 0 THEN "delete" ELSE "create", staging)

-----------------------------------------------------------------------------
(* The calls made by the controller.  Each takes the mutex.                *)

\* Mutant: an edited policy keeps the index it had.
KeepsIndex(n, obj) ==
    LET old == stagedBindingPolicies[n]
        active == IF old = None THEN ActiveStage(obj) ELSE old.activeIndex
    IN  /\ op = None
        /\ stagedBindingPolicies' = [stagedBindingPolicies EXCEPT ![n] =
             [uid |-> obj.uid, stages |-> obj.stages, activeIndex |-> active,
              activeBindingPolicyUID |-> NoUid, bindingSpec |-> {}]]
        /\ op' = EnsureActiveStage(n, active, FALSE)

NoteStagedBindingPolicy(n, obj) ==
    LET active == ActiveStage(obj)
    IN  /\ op = None
        /\ stagedBindingPolicies' = [stagedBindingPolicies EXCEPT ![n] =
             [uid |-> obj.uid, stages |-> obj.stages, activeIndex |-> active,
              activeBindingPolicyUID |-> NoUid, bindingSpec |-> {}]]
        /\ op' = EnsureActiveStage(n, active, FALSE)

DeleteStagedBindingPolicy(n) ==
    /\ op = None
    /\ stagedBindingPolicies' = [stagedBindingPolicies EXCEPT ![n] = None]
    /\ op' = Returns(n)

\* The policy that the name of a Binding, or a CombinedStatus's label, leads to.
EntryOf(key) == IF OwnerOf[key] = None THEN None ELSE stagedBindingPolicies[OwnerOf[key]]

\* The Binding belongs to the BindingPolicy the entry deployed last.
IsActiveBinding(e, binding) == e # None /\ e.activeBindingPolicyUID = binding.bp

NoteBinding(key, binding) ==
    LET n == OwnerOf[key]
        e == EntryOf(key)
        noted == [e EXCEPT !.bindingSpec = binding.workload]
    IN  /\ op = None
        /\ \/ /\ ~IsActiveBinding(e, binding)
              /\ op' = Returns(key[1])
              /\ UNCHANGED stagedBindingPolicies
           \/ /\ IsActiveBinding(e, binding)
              /\ stagedBindingPolicies' = [stagedBindingPolicies EXCEPT ![n] = noted]
              /\ op' = Attempt(n, noted)

\* Mutant: only a Binding makes the resolver check the condition.
IgnoresStatuses(status) ==
    op = None /\ op' = Returns(status.label[1]) /\ UNCHANGED stagedBindingPolicies

NoteCombinedStatus(status) ==
    LET e == EntryOf(status.label)
    IN  /\ op = None
        /\ op' = IF e = None THEN Returns(status.label[1]) ELSE Attempt(OwnerOf[status.label], e)
        /\ UNCHANGED stagedBindingPolicies

-----------------------------------------------------------------------------
(* The steps of an operation in progress.                                  *)

At(pc) == op # None /\ op.pc = pc

Entry == stagedBindingPolicies[op.sbp]

\* Mutants: the index is not reverted; every error is swallowed.
NoRevert ==
    /\ op' = [Returns(op.sbp) EXCEPT !.err = ~op.staging]
    /\ UNCHANGED stagedBindingPolicies

Swallows ==
    /\ op' = Returns(op.sbp)
    /\ stagedBindingPolicies' =
         IF op.staging
         THEN [stagedBindingPolicies EXCEPT ![op.sbp].activeIndex = @ - 1]
         ELSE stagedBindingPolicies

\* The operation returns: stageUpLocked swallows an error after reverting
\* activeIndex, NoteStagedBindingPolicy passes it on.
Fail ==
    /\ op' = [Returns(op.sbp) EXCEPT !.err = ~op.staging]
    /\ stagedBindingPolicies' =
         IF op.staging
         THEN [stagedBindingPolicies EXCEPT ![op.sbp].activeIndex = @ - 1]
         ELSE stagedBindingPolicies

\* Mutant: a status of another object will do.
AnyObject(e, o) ==
    {c \in csCache : /\ c.label = Key(op.sbp, e, e.activeIndex)
                     /\ e.activeBindingPolicyUID \in {NoUid, c.bp}}

\* The CombinedStatuses the condition may be evaluated on: the labels select
\* object and stage, and the name contains the active UID (any name does when
\* that UID is empty).
Matches(e, o) ==
    {c \in csCache : /\ c.obj = o
                     /\ c.label = Key(op.sbp, e, e.activeIndex)
                     /\ e.activeBindingPolicyUID \in {NoUid, c.bp}}

\* One round of the loop over the filtered objects, in map order; of several
\* matches the last listed counts.  After the last object the stage is left.
CheckObject(o) ==
    LET matches == Matches(Entry, o)
        rest == op.todo \ {o}
    IN  /\ At("attempt")
        /\ o \in op.todo
        /\ \/ /\ matches = {} \/ \E c \in matches : ~c.sat
              /\ op' = Returns(op.sbp)
              /\ UNCHANGED stagedBindingPolicies
           \/ /\ \E c \in matches : c.sat
              /\ rest # {}
              /\ op' = [op EXCEPT !.todo = rest]
              /\ UNCHANGED stagedBindingPolicies
           \/ /\ \E c \in matches : c.sat
              /\ rest = {}
              /\ stagedBindingPolicies' =
                   [stagedBindingPolicies EXCEPT ![op.sbp].activeIndex = @ + 1]
              /\ op' = EnsureActiveStage(op.sbp, Entry.activeIndex + 1, TRUE)
        /\ UNCHANGED wdsVars

\* Delete of the previous stage's BindingPolicy; not found is no error.
DeletePrevious ==
    LET deleted == [bp EXCEPT ![Key(op.sbp, Entry, Entry.activeIndex - 1)] = None]
    IN  /\ At("delete")
        /\ \/ /\ bp' = deleted
              /\ op' = [op EXCEPT !.pc = "create"]
              /\ UNCHANGED <<stagedBindingPolicies, events>>
           \/ /\ Event("fault")
              /\ bp' \in {bp, deleted}
              /\ Fail
        /\ UNCHANGED <<sbp, bdg, cs, objs, nextUid>>

OutOfStages(e) == e.activeIndex >= Len(e.stages)

\* Create of the active stage's BindingPolicy; already exists is an error, and
\* so is a Create past the bound MaxUid, which the API server rejects.
CreateActive ==
    LET key == Key(op.sbp, Entry, Entry.activeIndex)
        created == [bp EXCEPT ![key] = [uid |-> nextUid, owner |-> Entry.uid]]
    IN  /\ At("create")
        /\ ~OutOfStages(Entry)
        /\ \/ /\ bp[key] = None
              /\ FreshUid
              /\ bp' = created
              /\ op' = [op EXCEPT !.pc = "get"]
              /\ stagedBindingPolicies' =
                   [stagedBindingPolicies EXCEPT ![op.sbp].activeBindingPolicyUID = nextUid]
              /\ UNCHANGED events
           \/ /\ bp[key] # None \/ nextUid > MaxUid
              /\ Fail
              /\ UNCHANGED <<bp, nextUid, events>>
           \/ /\ Event("fault")
              /\ \/ UNCHANGED <<bp, nextUid>>
                 \/ bp[key] = None /\ FreshUid /\ bp' = created
              /\ Fail
        /\ UNCHANGED <<sbp, bdg, cs, objs>>

GetPolicy ==
    /\ At("get")
    /\ \/ /\ sbp[op.sbp] # None
          /\ op' = [op EXCEPT !.pc = "update", !.got = sbp[op.sbp]]
          /\ UNCHANGED <<stagedBindingPolicies, events>>
       \/ /\ sbp[op.sbp] = None
          /\ Fail
          /\ UNCHANGED events
       \/ Event("fault") /\ Fail
    /\ UNCHANGED <<sbp, bp, bdg, cs, objs, nextUid>>

\* What follows a successful ensureActiveStageLocked in each of its callers.
Continue ==
    /\ op' = IF op.staging THEN Returns(op.sbp) ELSE Attempt(op.sbp, Entry)
    /\ UNCHANGED stagedBindingPolicies

\* The write carries the resource version that was read, so it conflicts with
\* any write made since.
UpdateStatus ==
    LET echo == [op.got EXCEPT !.active = Stage(Entry, Entry.activeIndex).name]
        updated == PutStatus(op.sbp, echo)
    IN  /\ At("update")
        /\ \/ sbp[op.sbp] = op.got /\ sbp' = updated /\ Continue /\ UNCHANGED events
           \/ sbp[op.sbp] # op.got /\ Fail /\ UNCHANGED <<sbp, events>>
           \/ /\ Event("fault")
              /\ sbp' = sbp \/ (sbp[op.sbp] = op.got /\ sbp' = updated)
              /\ Fail
        /\ UNCHANGED <<bp, bdg, cs, objs, nextUid>>

OpSteps ==
    \/ \E o \in Objects : CheckObject(o)
    \/ DeletePrevious
    \/ CreateActive
    \/ GetPolicy
    \/ UpdateStatus

\* The operation panics: it indexes past the last stage.
Panics == At("create") /\ OutOfStages(Entry)
=============================================================================
