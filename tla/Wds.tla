--------------------------------- MODULE Wds ---------------------------------
(***************************************************************************)
(* The workload description space (WDS): the API server the controller     *)
(* talks to, its users, the Kubernetes garbage collector and KubeStellar   *)
(* itself.  None of this is code of the repository except the shape of a   *)
(* StagedBindingPolicy; it is modelled from how the controller uses it.    *)
(*                                                                         *)
(* A BindingPolicy, and the Binding KubeStellar derives from it, is named  *)
(* by a pair <<staged policy, stage name>>.                                *)
(***************************************************************************)
EXTENDS Naturals, Sequences

CONSTANTS
    SBPs,            \* names of StagedBindingPolicies
    StageNames,      \* names of stages
    Objects,         \* workload objects selected by the downsync clauses
    StageLists,      \* the values users give to spec.stages
    None,            \* absent object, stage name or snapshot
    EventKinds,      \* kinds of external events that happen in this model
    MaxEvents,       \* bound on the number of such events
    MaxUid           \* bound on the UIDs the API server hands out

VARIABLES
    sbp,        \* StagedBindingPolicy objects, by name
    bp,         \* BindingPolicy objects, by key
    bdg,        \* Binding objects, by key
    cs,         \* CombinedStatus objects
    objs,       \* workload objects that exist at the moment
    nextUid,    \* next UID to hand out
    events      \* number of external events so far

wdsVars == <<sbp, bp, bdg, cs, objs, nextUid, events>>

-----------------------------------------------------------------------------
NoUid == 0          \* the empty UID of a Go struct that was never filled in

Uids == Nat \ {NoUid}

BPKeys == SBPs \X StageNames

\* A stage: `filter' is the set of objects its filter expression admits,
\* `cond' says whether it has a condition; clusterSelectors play no part.
Stages == [name: StageNames, filter: SUBSET Objects, cond: BOOLEAN]

SBPObjects == [uid: Uids, gen: Nat, stages: Seq(Stages), active: StageNames \cup {None}]

BPObjects == [uid: Uids, owner: Uids]

\* `bp' is the UID in the Binding's owner reference.
BindingObjects == [bp: Uids, gen: Nat, workload: SUBSET Objects]

\* `label' is the binding-policy label, `bp' the UID that is part of the name,
\* `sat' whether the condition of the labelled stage evaluates to true on it.
CombinedStatuses == [label: BPKeys, obj: Objects, bp: Uids, sat: BOOLEAN]

ASSUME WdsAssumption ==
    /\ StageLists \subseteq Seq(Stages)
    /\ MaxUid \in Nat
    /\ MaxEvents \in Nat
    /\ None \notin StageNames
    /\ None \notin SBPObjects
    /\ None \notin BPObjects
    /\ None \notin BindingObjects
    /\ None \notin CombinedStatuses

-----------------------------------------------------------------------------
WdsTypeOK ==
    /\ sbp \in [SBPs -> SBPObjects \cup {None}]
    /\ bp \in [BPKeys -> BPObjects \cup {None}]
    /\ bdg \in [BPKeys -> BindingObjects \cup {None}]
    /\ cs \in SUBSET CombinedStatuses
    /\ objs \in SUBSET Objects
    /\ nextUid \in Uids
    /\ events \in Nat

WdsInit ==
    /\ sbp = [n \in SBPs |-> None]
    /\ bp = [k \in BPKeys |-> None]
    /\ bdg = [k \in BPKeys |-> None]
    /\ cs = {}
    /\ objs \in SUBSET Objects
    /\ nextUid = 1
    /\ events = 0

\* An event that the rest of the system does not cause: a user's request
\* ("create", "edit", "delete", "workload"), a condition that stops holding
\* ("regress"), a failed API call ("fault"), a relist, a crash.
Event(kind) ==
    /\ kind \in EventKinds
    /\ events < MaxEvents
    /\ events' = events + 1

FreshUid ==
    /\ nextUid <= MaxUid
    /\ nextUid' = nextUid + 1

-----------------------------------------------------------------------------
(* Users.  The API server gives a new object generation 1 and bumps the    *)
(* generation when the spec changes, never when only the status does.      *)

UserCreates(n, stages) ==
    /\ Event("create")
    /\ sbp[n] = None
    /\ FreshUid
    /\ sbp' = [sbp EXCEPT ![n] =
                 [uid |-> nextUid, gen |-> 1, stages |-> stages, active |-> None]]
    /\ UNCHANGED <<bp, bdg, cs, objs>>

UserEdits(n, stages) ==
    /\ Event("edit")
    /\ sbp[n] # None
    /\ sbp[n].stages # stages
    /\ sbp' = [sbp EXCEPT ![n].stages = stages, ![n].gen = @ + 1]
    /\ UNCHANGED <<bp, bdg, cs, objs, nextUid>>

UserDeletes(n) ==
    /\ Event("delete")
    /\ sbp[n] # None
    /\ sbp' = [sbp EXCEPT ![n] = None]
    /\ UNCHANGED <<bp, bdg, cs, objs, nextUid>>

\* A workload object is created or deleted in the WDS.
WorkloadChanges(o) ==
    /\ Event("workload")
    /\ objs' = IF o \in objs THEN objs \ {o} ELSE objs \cup {o}
    /\ UNCHANGED <<sbp, bp, bdg, cs, nextUid>>

\* A PUT to the status subresource: of the object sent only the status is kept.
PutStatus(n, obj) == [sbp EXCEPT ![n].active = obj.active]

-----------------------------------------------------------------------------
(* The garbage collector removes what an owner left behind.                *)

Owned(k) == sbp[k[1]] # None /\ bp[k].owner = sbp[k[1]].uid

CollectBP(k) ==
    /\ bp[k] # None
    /\ ~Owned(k)
    /\ bp' = [bp EXCEPT ![k] = None]
    /\ UNCHANGED <<sbp, bdg, cs, objs, nextUid, events>>

-----------------------------------------------------------------------------
(* KubeStellar derives a Binding from each BindingPolicy and one           *)
(* CombinedStatus for each object of a Binding.                            *)

Current(k) == bp[k] # None /\ bdg[k] # None /\ bdg[k].bp = bp[k].uid

KsBinds(k) ==
    /\ bp[k] # None
    /\ bdg[k] = None
    /\ bdg' = [bdg EXCEPT ![k] = [bp |-> bp[k].uid, gen |-> 1, workload |-> objs]]
    /\ UNCHANGED <<sbp, bp, cs, objs, nextUid, events>>

KsRebinds(k) ==
    /\ Current(k)
    /\ bdg[k].workload # objs
    /\ bdg' = [bdg EXCEPT ![k].workload = objs, ![k].gen = @ + 1]
    /\ UNCHANGED <<sbp, bp, cs, objs, nextUid, events>>

KsUnbinds(k) ==
    /\ bdg[k] # None
    /\ ~Current(k)
    /\ bdg' = [bdg EXCEPT ![k] = None]
    /\ UNCHANGED <<sbp, bp, cs, objs, nextUid, events>>

Reports(o, u) == {c \in cs : c.obj = o /\ c.bp = u}

\* Going back from satisfied to unsatisfied disturbs the rollout.
KsReports(k, o, sat) ==
    LET old == Reports(o, bdg[k].bp)
        new == [label |-> k, obj |-> o, bp |-> bdg[k].bp, sat |-> sat]
    IN  /\ bdg[k] # None
        /\ o \in bdg[k].workload
        /\ new \notin cs
        /\ IF old # {} /\ ~sat THEN Event("regress") ELSE UNCHANGED events
        /\ cs' = (cs \ old) \cup {new}
        /\ UNCHANGED <<sbp, bp, bdg, objs, nextUid>>

Bound(c) ==
    /\ bdg[c.label] # None
    /\ bdg[c.label].bp = c.bp
    /\ c.obj \in bdg[c.label].workload

KsRetracts(c) ==
    /\ c \in cs
    /\ ~Bound(c)
    /\ cs' = cs \ {c}
    /\ UNCHANGED <<sbp, bp, bdg, objs, nextUid, events>>

KubeStellar(k) ==
    \/ KsBinds(k)
    \/ KsRebinds(k)
    \/ KsUnbinds(k)
    \/ \E o \in Objects, sat \in BOOLEAN : KsReports(k, o, sat)
    \/ \E c \in cs : c.label = k /\ KsRetracts(c)

WdsNext ==
    \/ \E n \in SBPs, stages \in StageLists : UserCreates(n, stages) \/ UserEdits(n, stages)
    \/ \E n \in SBPs : UserDeletes(n)
    \/ \E o \in Objects : WorkloadChanges(o)
    \/ \E k \in BPKeys : CollectBP(k) \/ KubeStellar(k)
=============================================================================
