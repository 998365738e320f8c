--------------------------- MODULE ControllerProps ---------------------------
(***************************************************************************)
(* What the staged rollout promises, and the fairness under which it must  *)
(* make progress.  The properties take stage names to be distinct within a *)
(* StagedBindingPolicy.                                                    *)
(***************************************************************************)
EXTENDS Controller

Tracked(n) == stagedBindingPolicies[n]

Deployed(n, name) == bp[<<n, name>>] # None

\* Position, from 1, of the stage the status names; 0 when it names none.
Position(obj) ==
    LET at == {i \in 1..Len(obj.stages) : obj.stages[i].name = obj.active}
    IN  IF at = {} THEN 0 ELSE CHOOSE i \in at : TRUE

\* Nothing is left to do: every event has been seen and every item processed.
Quiet ==
    /\ up /\ op = None
    /\ dirty = {} /\ delayed = {}
    /\ \A w \in Workers : worker[w].pc = "idle"
    /\ sbpCache = sbp /\ bdgCache = bdg /\ csCache = cs

-----------------------------------------------------------------------------
(* A stage's BindingPolicy is deleted before the next one's is created     *)
(* (ensureActiveStageLocked): a workload is never placed by two stages of  *)
(* one policy at the same time.                                            *)
AtMostOneDeployed ==
    \A k1, k2 \in BPKeys :
        bp[k1] # None /\ bp[k2] # None /\ bp[k1].owner = bp[k2].owner => k1 = k2

(* The UID kept by the resolver is that of a BindingPolicy it made for     *)
(* this incarnation of the policy, for the active stage: between           *)
(* operations NoteBinding never takes another stage's Binding for the      *)
(* active one, nor does the condition use another stage's statuses.        *)
UidTracksStage ==
    op = None =>
        \A n \in SBPs, name \in StageNames :
            LET e == Tracked(n) IN
            /\ e # None
            /\ Deployed(n, name)
            /\ bp[<<n, name>>].uid = e.activeBindingPolicyUID
            => /\ bp[<<n, name>>].owner = e.uid
               /\ e.activeIndex < Len(e.stages)
               /\ Stage(e, e.activeIndex).name = name

(* When API calls fail, a stage-up that is undone after its Create leaves  *)
(* the UID of the next stage behind, and nothing further away than that.   *)
UidNearStage ==
    op = None =>
        \A n \in SBPs, name \in StageNames :
            LET e == Tracked(n) IN
            /\ e # None
            /\ Deployed(n, name)
            /\ bp[<<n, name>>].uid = e.activeBindingPolicyUID
            => /\ bp[<<n, name>>].owner = e.uid
               /\ \E i \in {e.activeIndex, e.activeIndex + 1} :
                      i < Len(e.stages) /\ Stage(e, i).name = name

(* An error of the first deployment is retried: a policy that exists once  *)
(* every item is processed has a stage in its status.                      *)
SettledNoted ==
    Quiet => \A n \in SBPs : sbp[n] # None => Position(sbp[n]) > 0

(* NoteStagedBindingPolicy, DeleteStagedBindingPolicy: once every event is *)
(* processed the table holds the policies that exist, of each the last     *)
(* incarnation with the stages its spec now has, and nothing else.         *)
SettledTracked ==
    Quiet => \A n \in SBPs :
        IF sbp[n] = None THEN Tracked(n) = None
        ELSE /\ Tracked(n) # None
             /\ Tracked(n).uid = sbp[n].uid
             /\ Tracked(n).stages = sbp[n].stages

(* Once every event is processed, the status and the table agree on the    *)
(* active stage, and its BindingPolicy is deployed; a process that died    *)
(* may have left the next stage's in place, whose Create then fails.       *)
SettledDeployed ==
    Quiet => \A n \in SBPs :
        LET e == Tracked(n)
            position == Position(sbp[n])
        IN
        sbp[n] # None =>
            /\ e # None
            /\ e.activeIndex + 1 = position
            /\ \/ /\ Deployed(n, sbp[n].active)
                  /\ bp[<<n, sbp[n].active>>].uid = e.activeBindingPolicyUID
               \/ /\ "crash" \in EventKinds
                  /\ position < Len(e.stages)
                  /\ Deployed(n, e.stages[position + 1].name)

(* Once every event is processed, no stage is left waiting although its    *)
(* condition holds on every object it is checked against: whatever order   *)
(* the Binding and its CombinedStatuses arrived in, no wake-up is lost.    *)
SettledUnfulfilled ==
    Quiet => \A n \in SBPs :
        sbp[n] # None /\ Position(sbp[n]) > 0 =>
            LET stage == sbp[n].stages[Position(sbp[n])]
                key == <<n, stage.name>>
                checked == IF Current(key) THEN FilterWorkload(bdg[key].workload, stage) ELSE {}
            IN  stage.cond /\ checked # {} =>
                    \E o \in checked :
                        \A c \in cs : c.obj = o /\ c.bp = bp[key].uid => ~c.sat

(* stageUpLocked: a stage is left only when the condition holds on every   *)
(* object of the Binding of the BindingPolicy deployed for that stage.     *)
StagesUp == At("attempt") /\ op' # None /\ op'.staging

StageUpJustified ==
    [][StagesUp =>
          LET e == Entry
              key == Key(op.sbp, e, e.activeIndex)
          IN  /\ Current(key)
              /\ \A o \in FilterWorkload(bdg[key].workload, Stage(e, e.activeIndex)) :
                     \E c \in cs : c.obj = o /\ c.bp = bp[key].uid /\ c.sat]_vars

(* The status a user reads moves from stage to stage in the order of the   *)
(* spec: it never skips a stage and never goes back.                       *)
StatusMovesOneStage ==
    [][\A n \in SBPs :
          sbp[n] # None /\ sbp'[n] # None /\ sbp[n].uid = sbp'[n].uid =>
              \/ sbp'[n].active = sbp[n].active
              \/ Position(sbp'[n]) = Position(sbp[n]) + 1]_vars

(* A stage the status has left behind is not deployed any more, and none   *)
(* is deployed further ahead than the one that follows the status.         *)
DeployedNearStatus ==
    \A n \in SBPs : sbp[n] # None =>
        \A i \in 1..Len(sbp[n].stages) :
            Deployed(n, sbp[n].stages[i].name) /\ bp[<<n, sbp[n].stages[i].name>>].owner = sbp[n].uid
            => i \in {Position(sbp[n]), Position(sbp[n]) + 1}

(* As long as users leave a policy alone and no API call fails, whatever   *)
(* the interleaving of events, workers and API calls, each step of the     *)
(* system is a step of a staged rollout or invisible to it.  Only a        *)
(* process that died may leave a stage deployed beside another one.        *)
DeployedPositions(n) ==
    {i \in 1..Len(sbp[n].stages) :
        LET key == <<n, sbp[n].stages[i].name>>
        IN  bp[key] # None /\ bp[key].owner = sbp[n].uid}

RolloutOf(n) ==
    IF sbp[n] = None THEN None
    ELSE [stages |-> [i \in 1..Len(sbp[n].stages) |-> sbp[n].stages[i].cond],
          active |-> Position(sbp[n]),
          deployed |-> DeployedPositions(n)]

Rollouts == [stages: Seq(BOOLEAN), active: Nat, deployed: SUBSET Nat]

ASSUME RolloutAssumption == None \notin Rollouts

Rollout == INSTANCE StagedRollout WITH
    Policies <- SBPs,
    MayOverlap <- "crash" \in EventKinds,
    rollout <- [n \in SBPs |-> RolloutOf(n)]

ImplementsRollout == Rollout!RolloutSpec

(* No operation of the resolver indexes past the last stage.               *)
NoPanic == ~panicked

(* When the last stage has a condition the process does panic, and each    *)
(* time only this way: the status already names the last stage, the index  *)
(* is one past it, and the last BindingPolicy has just been deleted.       *)
PanicOnlyPastLastStage ==
    [][Panic =>
          LET last == Len(Entry.stages)
          IN  /\ op.staging
              /\ Entry.activeIndex = last
              /\ sbp[op.sbp] # None => Position(sbp[op.sbp]) = last
              /\ ~Deployed(op.sbp, Entry.stages[last].name)]_vars

(* README: a new StagedBindingPolicy starts with the first stage.          *)
StartsAtFirstStage ==
    [][\A n \in SBPs :
          sbp[n] # None /\ sbp'[n] # None /\ sbp[n].active = None /\ sbp'[n].active # None =>
              sbp'[n].active = sbp'[n].stages[1].name]_vars

-----------------------------------------------------------------------------
(* Fairness.  Workers, informers, timers, the garbage collector and        *)
(* KubeStellar keep running; the queue is first in, first out and Go's     *)
(* mutex does not starve a waiter; users, crashes and faults owe nothing.  *)

BoundedItems == ({"sbp"} \X SBPs) \cup ({"bdg"} \X BPKeys)
                \cup ({"cs"} \X (Objects \X (1..MaxUid)))

ControllerFairness ==
    /\ WF_vars(Informers)
    /\ WF_vars(Resolve)
    /\ WF_vars(Restart)
    /\ \A w \in Workers : WF_vars(ReadLister(w)) /\ SF_vars(Reconcile(w)) /\ WF_vars(Finish(w))
    /\ \A item \in BoundedItems :
          SF_vars(\E w \in Workers : Get(w, item)) /\ WF_vars(Requeue(item))

Runs(A) == A /\ UNCHANGED <<resolverVars, cacheVars, queueVars, up, panicked>>

EnvironmentFairness ==
    \A k \in BPKeys :
        /\ WF_vars(Runs(CollectBP(k)))
        /\ WF_vars(Runs(KsBinds(k) \/ KsRebinds(k) \/ KsUnbinds(k)))
        /\ \A o \in Objects : WF_vars(Runs(KsReports(k, o, TRUE)))

FairSpec == Spec /\ ControllerFairness /\ EnvironmentFairness

(* README: when a stage is fulfilled the controller creates the next one,  *)
(* so a policy whose conditions all come to hold reaches its last stage.   *)
(* A stage whose filter admits no object is never fulfilled                *)
(* (attemptConditionLocked).                                               *)
CanComplete(n) ==
    /\ sbp[n] # None
    /\ \A i \in 1..(Len(sbp[n].stages) - 1) : FilterWorkload(objs, sbp[n].stages[i]) # {}

RolloutCompletes ==
    \A n \in SBPs :
        CanComplete(n) ~> (sbp[n] # None /\ Position(sbp[n]) = Len(sbp[n].stages))

(* NoteStagedBindingPolicy: a policy comes to be tracked with its active   *)
(* stage deployed.                                                         *)
ActiveDeployed(n) ==
    /\ Tracked(n) # None
    /\ ~OutOfStages(Tracked(n))
    /\ LET k == Key(n, Tracked(n), Tracked(n).activeIndex)
       IN  bp[k] # None /\ bp[k].uid = Tracked(n).activeBindingPolicyUID

BecomesDeployed == \A n \in SBPs : []<>(sbp[n] = None \/ (up /\ ActiveDeployed(n)))

(* DeleteStagedBindingPolicy: what is kept of a deleted policy goes away,  *)
(* whatever was in progress when it was deleted.                           *)
DeletedIsForgotten ==
    \A n \in SBPs :
        <>[](sbp[n] = None) => <>[](Tracked(n) = None /\ \A name \in StageNames : ~Deployed(n, name))
=============================================================================
