# The StagedBindingPolicy controller in TLA+

This directory is a formal model of the KubeStellar workload stager: a
Kubernetes controller that rolls a workload out stage by stage. A user writes a
`StagedBindingPolicy` with a list of stages; the controller keeps one KubeStellar
`BindingPolicy` deployed, that of the active stage, and moves to the next stage
once the active stage's condition holds on the `CombinedStatus` of every workload
object its filter admits.

Paths are relative to the root of the repository (`resolver.go`, `controller.go`
and the other short names are in `pkg/staged-binding-policy/`).

## 1. Inventory

| Component | State it keeps | Operations |
|---|---|---|
| Resolver, `resolver.go` | the table `stagedBindingPolicies`: for each policy its UID, stages, active index, UID of the deployed BindingPolicy and the Binding's spec, all under one mutex | `NoteStagedBindingPolicy`, `DeleteStagedBindingPolicy`, `NoteBinding`, `NoteCombinedStatus`; inside: check the condition, stage up, ensure the active stage, update the status |
| Controller, `controller.go`, `binding.go`, `combinedstatus.go`, `stagedbindingpolicy.go` | three informer stores, a rate-limited work queue, four workers | event handlers, `processNextWorkItem`, `reconcile` and the three sync functions, `Start` and `run` |
| StagedBindingPolicy API, `api/community/v1alpha1/types.go` | spec and status in the API server | none |
| CEL evaluator, `cel-evaluator.go` | one CEL environment, never changed | `Evaluate`; `CheckExpression`, which does its first half, is not called |
| Process, `cmd/controller-manager/main.go` | flags, manager | start-up, health checks, leader election, signals |
| Generated code, `pkg/generated/`, deep copies | client, listers, informer factory | get, list, start |
| Scripts, `hack/`, `Makefile` | none | build and release |
| *Outside the repository* | the API server's objects | users, garbage collector, KubeStellar |

How they interact:

* KubeStellar derives a `Binding` from each `BindingPolicy` (the workload objects
  it selects) and a `CombinedStatus` for each object of a Binding.
* Three informers copy StagedBindingPolicies, Bindings and CombinedStatuses into
  local stores, each with its own delay, and their handlers put references on the
  work queue.
* A worker takes a reference, reads the object **from the store**, not from the
  event, and calls the resolver, which serialises all calls with its mutex.
* Inside one call the resolver talks to the API server up to four times (delete,
  create, get, update status) and reads the CombinedStatus store once per object.
  All else in the cluster moves between any two of these.
* The resolver's status update comes back through the StagedBindingPolicy
  informer. It does not change the generation, so the handler drops it, but it
  does change what a later retry reads from the store.

What is hard here: the order in which four kinds of events arrive; the store that
is older than the table; a stage-up that fails or dies half way through; deletion
and re-creation under the same name; and a condition that is checked while the
store under it changes. `PROJECT.json` lists these hazards with their lines.

What makes each component correct:

* Resolver: at most one stage of a policy is deployed; the remembered UID is that
  of the active stage; a stage is left only when its condition holds on the
  active Binding's objects; no index leaves the list of stages.
* Controller: no event is lost, whatever the order of arrival and the number of
  workers; errors are retried; the table ends up agreeing with the API server.
* Process: the workers start with full stores (the handlers may fill the queue later), and
  no wait of the start-up waits for something later; a process without its manager ends, unless it
  was told to stop.
* Whole system: the status moves one stage at a time; a rollout whose conditions
  come to hold is completed; what belonged to a deleted policy goes away.

## 2. Modules

```
Wds, Selection  <-  Resolver  <-  Controller  <-  ControllerProps  <-  MCController
                                                       |
                                                       +- INSTANCE StagedRollout

Naming, Selection  <-  MCData          InformerFactory  <-  Startup  <-  MCStartup

Proofs:
ControllerProps <- ControllerProofs <- StepProofs <- QueueProofs <- RolloutProofs <- RefinementProofs
                                                                                  <- ConditionProofs
MCData <- DataProofs                   Startup <- StartupProofs
```

**`Wds`** is the world outside: the API server's objects, users, garbage collector
and KubeStellar. It is modelled from how the controller uses it and marked
external in the map, except the shape of a policy, which is in `types.go`.

* A BindingPolicy or Binding is named by a pair *policy, stage name* for the code's
  `<policy>.stage.<stage>`.
* A stage is its name, the set of objects its filter admits and whether it has a
  condition. `clusterSelectors` and `downsync` are passed through by the code and
  play no part.
* Creation gives a fresh UID and generation 1; a change of the spec bumps the
  generation; a change of the status does not (`+kubebuilder:subresource:status`).
* A CombinedStatus carries the binding-policy label, its object, the UID that is
  part of its name, and whether the labelled stage's condition is true on it.
* Every disturbance (a user's request, a condition that stops holding, a failed API call, a
  relist, a crash) is an `Event` of a kind that the configuration enables, at
  most `MaxEvents` of them.

**`Resolver`** is `resolver.go`. `op` is the operation that holds the mutex; since
every entry point locks, there is at most one.

| Code | Definition |
|---|---|
| `NoteStagedBindingPolicy` 117-145 | `ActiveStage` (in `Selection`), `NoteStagedBindingPolicy`, then `EnsureActiveStage` and `Attempt` |
| `DeleteStagedBindingPolicy` 148-153 | `DeleteStagedBindingPolicy` |
| `NoteBinding` 158-190 | `EntryOf`, `NoteBinding`, `IsActiveBinding` |
| `NoteCombinedStatus` 195-220 | `NoteCombinedStatus` |
| `attemptConditionLocked` up to its loop 222-243 | `Attempt` |
| one round of the loop, `stageUpLocked` at its end 243-309 | `CheckObject`, `Matches` |
| `ensureActiveStageLocked`: delete 324-330 | `DeletePrevious` |
| ... create 332-354 | `CreateActive` |
| `updateStagedBindingPolicyStatusLocked`: get 357-361 | `GetPolicy` |
| ... update 363-368 | `UpdateStatus`, `Continue` |
| error paths 139-141, 312-317 | `Fail` |
| index past the end 335 | `Panics` |

**`Controller`** is the process: the informers (`DeliverPolicy`, `DeliverBinding`,
`DeliverStatus`, with `Enqueues` for the handlers' conditions), the queue (`Get`,
`Requeue`), the workers (`ReadLister`, `Reconcile`, `Resolve`, `Finish`), and
`Crash`, `Panic`, `Restart`.

**`ControllerProps`** states the properties and the fairness, **`MCController`**
the values of the constants for TLC. The modules called `...Proofs` hold the
theorems (section 4).

**`StagedRollout`** is the abstract specification: a policy's stages, the position its
status names and the positions that are deployed. A step creates a rollout,
deploys the named stage or the next one, withdraws a stage that has a condition, or
announces the next stage once that alone is deployed. `ControllerProps` maps the
API server's objects to it (`RolloutOf`), and `ImplementsRollout` says that every step
of the controller, of KubeStellar and of the garbage collector is one of these or
changes nothing there. `MayOverlap`, whether a stage may be deployed while another
is, is true exactly in the runs with crashes.

**`Selection`** are the decisions that depend on data alone: the stage to resume at, the
CEL evaluator's verdict on an expression, and `filterWorkloadForSBP` with the maps
it gives to the evaluator. **`Naming`** is the name of a BindingPolicy and its split at
`.stage.`, over sequences of dot-separated labels. `Resolver` uses `ActiveStage` itself;
it replaces the others by what they amount to: a filter by the set of objects it admits
(`FilterActsOnObjects` shows when that is right), the split by the constant
`OwnerOf` (any function from names to a policy or `None`).

**`Startup`** is a process from `main` to its end, for several replicas.
**`InformerFactory`** is the generated factory it uses.

| Code | Definition |
|---|---|
| `main.go` 61-137, `NewController`, `makeController` | `Boot`, `SetUp` |
| error exits of `main.go` 109-143 before an informer runs | `SetupFails` |
| `Controller.Start`: handlers, resolver, first factory 174-195 | `StartKs` |
| ... second factory 196-200 | `StartSbp` |
| ... workers 201-217, `run` 220-237 | `LaunchRun`, `RunWorkers` |
| an informer's first list is in its store, as `HasSynced` says | `List` |
| the handlers 239-343 have been called for what it listed | `Handle` |
| `main.go` 146 | `StartManager`, `Acquire`, `ManagerFails`, `Signal`, `StopFails` |
| `main.go` 150 | `Park` |

Nothing else runs in a process until its first informers do, so what precedes is one
step each. client-go calls handlers from a goroutine of their own, which `HasSynced` of the
informer does not wait for, so `Handle` may come long after the workers start. `Controller`
joins all from `Boot` to `RunWorkers` in its `Restart`. What lets it do so is that the workers
find full stores (`ListedBeforeWork`); it puts the items on the queue at once, since one that
is put there later cannot be told from one that no worker has taken yet.

### Abstractions worth knowing

* *Informer stores* jump to the present state of the API server, one object at a
  time; versions in between may be skipped. Skipping is what client-go's queue of
  deltas and a relist may do; where an intermediate version matters (deletion
  followed by creation) `Seen` delivers the deletion first unless a relist hides it.
* *The work queue* is a set (`dirty`), as client-go's is up to order, with the items
  being processed in `worker` and the waiting retries in `delayed`. An item that is
  added while it is processed stays in `dirty` and cannot be taken until `Finish`.
  FIFO order is abstracted to any order for safety and to fairness for liveness.
* *`Finish`* joins the unlock, `AddRateLimited` or `Forget`, and `Done`. They touch
  the queue's own state only, and a worker that is between them takes nothing.
* *Several CombinedStatuses* may match one object when the remembered UID is empty;
  the code uses the last the lister returns, whose order is that of a map: any.
* *The set of filtered objects* is visited in map order: any.
* *UIDs* are numbers. Past `MaxUid` the API server rejects a Create. The model has
  no other way to bound the re-creation of BindingPolicies; the runs set `MaxUid`
  so that it is reached only by repeated failures.
* *Stage names* are distinct within a policy, in the configurations of the controller;
  `ResumesAtOrBefore` says what happens otherwise.
* *Names that are no label values.* `NewRequirement` reports an error for them, which the code
  drops (`resolver.go:246-255`), beside a requirement that nothing meets: the API server
  takes no CombinedStatus with such a label. `List` finds none, as for an object that
  nothing is reported of, and the stage waits for ever. Such names are objects of the
  model for which `KsReports` does not happen.
* *Bindings have an owner.* KubeStellar always sets the owner reference, to the BindingPolicy.
  One without (`resolver.go:177-180`) would be taken for the active one while the
  table's UID is empty.
* *Expressions* in `Selection` look up one key and compare what they find with one value,
  or yield it as it is; a boolean combination adds no way to fail.
* *The lease* runs out only when its holder's manager does not renew it. Clocks
  that drift are not modelled; nothing the controller does depends on the lease.
* Not part of the state: logs, metrics, the back-off's length, the
  `DeletionTimestamp` (no finalizers are used).

## 3. Runs

Each run is `tlc -config <name>.cfg` on `MCController`, except `data` and `group_filter` on
`MCData`, and `startup` and `leader_election` on `MCStartup`. Bounds: one policy (`p1`; policies
share no state but the mutex and the queue), stage names `dev`, `test`, `prod`.

| Run | Instance | Properties | Shows |
|---|---|---|---|
| `rollout` | 2 stages, 1 object, 2 workers; the workload changes, a condition stops holding, or a crash | `TypeOK`, `UidTracksStage`, `SettledDeployed`, `SettledUnfulfilled`, `SettledNoted`, `ImplementsRollout` | a rollout in every interleaving, no lost wake-up while the checked data moves, order over a restart |
| `stage_order` | 2 stages and 2 objects; 3 stages, the middle one with a filter, or 2 with a condition on the last, and 1 object | `AtMostOneDeployed`, `SettledDeployed`, `DeployedNearStatus`, `SettledUnfulfilled`, `StatusMovesOneStage`, `StageUpJustified`, `ImplementsRollout`, `PanicOnlyPastLastStage` | a middle stage is entered and left in order, with no other deployed meanwhile; the condition is checked on all admitted objects of the deployed stage, in any order of events, also right after another conditional stage; a panic happens past a conditional last stage only, and the restarts it causes keep the order |
| `rollout_live` | 2 stages, fair | `RolloutCompletes`, `BecomesDeployed` | progress |
| `disturbed` | at any point the first stage is dropped or added, the policy is deleted, or an API call fails with or without effect | `NoPanic`, `SettledNoted`, `SettledTracked`, `UidNearStage` | the index stays in range, the table follows the spec and forgets a policy deleted during a stage-up, what an undone stage-up leaves behind |
| `deleted_live` | create, delete, create, delete, relist, fair; the first stage's events lead to no policy | `DeletedIsForgotten` | nothing is left of a deleted policy |
| `data` | names of up to 3 labels, one of them `stage`; up to 3 stages, names repeated or not; workloads of up to 3 clauses with every good and five kinds of bad filter | `OwnerRecovered`, `WrongOwnerIsPrefix`, `ResumesAtOrBefore`, `FilterActsOnObjects`, `FailsClosed` | which names lead back to their policy, where a status resumes, what a filter admits |
| `startup` | 2 replicas with leader election, 4 failures or signals, fair | `TypeOK`, `ListedBeforeWork`, `PoliciesListedLast`, `ManagerlessOnlyBySignal`, `ComesUp` | the start-up's order, and that it cannot block itself, whenever the handlers are called |

Runs that end in a counterexample, each a disagreement of the code with what its own
documentation says (details under `findings` in `PROJECT.json`):

| Run | Property | What happens |
|---|---|---|
| `last_stage_panics` | `NoPanic` | the last stage's condition holds; `activeIndex` becomes `len(stages)`, `resolver.go:335` indexes with it |
| `restart_stuck` | `BecomesDeployed` | after a restart Create says AlreadyExists for ever; the policy is never resumed |
| `recreated_skips` | `StartsAtFirstStage` | a stage-up of a deleted policy writes its stage into the new policy of that name |
| `leader_election` | `AtMostOneActive` | the workers of every replica run, whoever leads |
| `group_filter` | `GroupMeansGroup` | a filter on the group of a namespaced object is compared with its version (`resolver.go:425`) |

`AtMostOneDeployed` does not survive a crash or an edit: a process that dies between
the create of the next stage and the status update leaves that BindingPolicy in place
while its successor deploys the stage before it again (`resolver.go:353-354`).
`ImplementsRollout` and `SettledDeployed` in `rollout` say what can be left over: the
stage after the one the status names.

More disagreements and surprises that were met on the way and have no run:

* A failed API call inside a stage-up is logged and swallowed (`resolver.go:312-317`):
  without a further event the fulfilled stage is never left, although its
  BindingPolicy may be deleted already (against `README.md:70-71`). With `"create", "fault"` as events
  `RolloutCompletes` fails.
* After a stage-up `bindingSpec` is still that of the previous stage's Binding (nothing resets it,
  `resolver.go:309`), so until the new Binding arrives a CombinedStatus makes the
  new stage be checked against the old one's objects, unlike `resolver.go:72-74`.
  `StageUpJustified` holds all the same while the workload does not change
  (theorem `StagesLeftForGood`): the statuses it looks up bear the new stage's UID.
* A relist that turns the deletion and creation of a policy into one update between
  generations 1 and 1 is dropped by the handler (`controller.go:324`): with
  `"create", "delete", "relist"` as events `SettledTracked` fails.
* An edit that drops or moves the active stage leaves its BindingPolicy deployed: only
  the stage before the new active one is deleted (`resolver.go:325`).
* A call that fails after its effect makes the policy's item be retried later with the
  status the store has by then: a stage-up made meanwhile is undone in the table, and
  in the end in the status (`controller.go:415`, `resolver.go:121`).
* The status goes back without any failure: an edit that is processed before the store has the
  status of the last stage-up makes the policy start from the stage before
  (`stagedbindingpolicy.go:30`, `resolver.go:121`). With `"create", "edit"` as events
  `StatusMovesOneStage` fails.
* The example condition of `README.md:52` has the root `obj`, which is not declared
  (`cel-evaluator.go:40`): by `FailsClosed` such an expression counts as false.
* A filter chooses the objects whose condition is checked, not those that are
  deployed (`README.md:49`).
* After the first signal the manager stops, its probes with it, and the process waits
  in `select {}` with its workers still running (`main.go:146-150`), although the comment
  at `main.go:103-104` has it end.

**Why the bounds suffice.** The resolver looks at one policy, at the active stage and its
neighbours, and at one object at a time, so three stages (first, middle, last) and
two objects (checked, still to check) cover its cases; the filter of the middle stage admits
an object or leaves it out. Two workers are enough to
have one in the resolver and another that waits with a stale snapshot. One event
of each disturbing kind hits every point of a rollout; `deleted_live` allows a
second incarnation and its deletion. Two replicas and four failures let each
replica fail while the other is anywhere, and fail again. Three labels put the
separator before, in and behind a name, and two of them next to each other.

Two runs have a constraint beside their constants. `OneObjectOrTwoStages` in `stage_order` leaves
out two objects together with a third stage or a second condition: each of the two is
covered on its own, and the check of a condition starts anew with each stage.
`LittleAfterDeletion` in `disturbed` stops where the policy is deleted and a fourth UID handed
out: three are the policy's and those of both its stages, so a fourth is that of a
BindingPolicy made once more after the garbage collector took it. `CHECK_DEADLOCK`
is off where the system rests: a rollout that is done, or processes that all run, with
the bounded events used up; and in `data` and `group_filter`, whose states are inputs.

**Fairness** (`FairSpec`). Informers, workers, retries and restarts are weakly fair:
goroutines run and the process is restarted by its Deployment. `Reconcile` (which
waits for the mutex) and `Get` (which waits for a worker, in a queue that is FIFO)
are strongly fair: Go's mutex hands over to a waiter that has starved for a
millisecond, and no item is overtaken for ever in a FIFO queue. The
garbage collector and KubeStellar are weakly fair, and a report that a condition
holds is made eventually; without that no rollout could be expected to complete.
Users, crashes, faults and relists have no fairness. In `Startup` a process's own
steps are weakly fair: its goroutines run, the API server answers the informers'
lists (a reflector tries again for ever) and three seconds pass. Restarting a
process, failures and signals have no fairness there.

**Mutants.** For each property of a passing run `PROJECT.json` names a variant of a
definition (`KeepsFirstStage`, `IgnoresStatuses`, ...), written in front of it,
that makes TLC find the property violated.

## 4. Proofs

`tlapm <module>.tla` checks each proof module. All theorems hold for any constants that
satisfy the named assumptions of the modules (`WdsAssumption`, `OwnerAssumption`,
`ResolverAssumption`, `ControllerAssumption`, `RolloutAssumption`, `StartupAssumption`:
`None` is not a value of any type, and stage lists, `OwnerOf` and the bounds
have their types), so for any number of policies, stages, objects, workers, replicas and events. All events
that the third column does not exclude may occur, panics and restarts in any case.

| Theorem | Property | Under |
|---|---|---|
| `TypeCorrect` (`ControllerProofs`) | `TypeOK` | |
| `NeverPanics` | `NoPanic` | `ListsAreSafe` |
| `UidsStayNear` (`StepProofs`) | `UidNearStage` | |
| `UidsTrackStages` | `UidTracksStage` | `Undisturbed` |
| `QuietTableIsTracked` (`QueueProofs`) | `SettledTracked` | `NoRelist` |
| `QuietPoliciesAreNoted` | `SettledNoted` | `NoRelist` |
| `OneStageAtATime` (`RolloutProofs`) | `AtMostOneDeployed` | `LeftAlone`, `DistinctNames`, no crash |
| `DeployedStaysNear` | `DeployedNearStatus` | `LeftAlone`, `DistinctNames` |
| `StatusMovesInOrder` | `StatusMovesOneStage` | `LeftAlone`, `DistinctNames` |
| `QuietPoliciesAreDeployed` | `SettledDeployed` while `nextUid <= MaxUid` | `LeftAlone`, `DistinctNames` |
| `ControllerImplementsRollout` (`RefinementProofs`) | `ImplementsRollout` | `LeftAlone`, `DistinctNames` |
| `OnlyPastLastStage` (`ConditionProofs`) | `PanicOnlyPastLastStage` | `LeftAlone`, `DistinctNames`, no empty list |
| `NoWakeupIsLost` | `SettledUnfulfilled` | `LeftAlone`, `DistinctNames`, `NamesSplit` |
| `StagesLeftForGood` | `StageUpJustified`, while `nextUid <= MaxUid` | `LeftAlone`, `DistinctNames`, `NamesSplit`, `Steady` |
| `StatusIsResumed` (`DataProofs`) | `ResumesAtOrBefore` | |
| `BadFiltersFailClosed` | `FailsClosed` | |
| `FiltersActOnObjects` | `FilterActsOnObjects` | `NoNamespace \notin Words` |
| `OwnersAreRecovered` | `OwnerRecovered` | |
| `WrongOwnersArePrefixes` | `WrongOwnerIsPrefix` | |
| `StartupTypeCorrect` (`StartupProofs`) | `TypeOK` | |
| `WorkersStartLast` | `ListedBeforeWork` | |
| `PoliciesLast` | `PoliciesListedLast` | |
| `ManagerlessWasSignalled` | `ManagerlessOnlyBySignal` | |

### What the theorems assume, and why

The hypotheses say which events users and the cluster refrain from, or what users
write. Each is there because the code needs it:

* `ListsAreSafe`: every list of stages is nonempty and ends in a stage without condition
  (`SafeList`). The run
  `last_stage_panics` shows what happens otherwise.
* `Undisturbed`: no failed API call, edit or deletion. A call that fails after its
  effect leaves the UID one stage behind or ahead; `UidsStayNear` bounds that without the hypothesis.
* `NoRelist`: no relist shows the deletion and re-creation of a policy as one update. The handler
  compares generations, 1 and 1, and drops it (`controller.go:324`).
* `LeftAlone`: no failed API call, edit, deletion of a policy or relist. The condition checks, crashes, panics,
  restarts and the workload go on. An edit can leave an old stage deployed (`resolver.go:325`).
* No crash, for `AtMostOneDeployed`: a crash between the create of a stage and the status
  update leaves two stages deployed after the restart (section 3). `DeployedNearStatus` and
  `ImplementsRollout` say what holds with crashes.
* `DistinctNames`: the stages of a policy have distinct names. The status names the stage by its
  name only, and a BindingPolicy by the names of policy and stage.
* `NamesSplit`: `OwnerOf` gives every BindingPolicy's own policy. `OwnersAreRecovered` says of
  which names that is true; the events of others are dropped or go astray, so no
  progress can be promised for them.
* `Steady`: the workload stays, a condition that holds goes on holding, and no process is killed.
  The condition is read from a store that lags behind, so what it says of a changing workload may be
  outdated by the time a stage is left.
* `nextUid <= MaxUid`: past `MaxUid` the model's API server refuses a Create, which acts
  like a failed call: the stage before is gone and the new one is not there. In the cluster
  UIDs do not run out.
* `NoNamespace \notin Words`: no namespace has the empty name, by which a cluster-scoped object is
  told from a namespaced one.

### How they are proved

None of the properties of the controller is inductive. The modules build one invariant upon another, with one lemma per action.
TLC checked the invariants on small instances first.

* **`ControllerProofs`**. `TypeInv` adds to the types what an operation relies on: its policy has an entry
  and its index is in range, at least 1 while staging up, so that the revert in `Fail`
  stays a natural number (`OpOK`); and a worker holds an object of its item's kind (`WorkerOK`).
  `SafeInv`, for `NeverPanics`: lists are safe wherever a policy is kept (API server,
  store, worker, table), and a stage is left only if it has a condition, so it is not the last.
* **`StepProofs`** first says of every step, field by field, what it does to each variable. The
  proofs after it cite these lemmas instead of expanding `Next`. `UidInv(slack)`: the table's UID is older than `nextUid`
  and, if a BindingPolicy has it, that one was made for the tracked incarnation and for the index of the
  present program counter, or up to `slack` stages further when calls may fail. UIDs are handed
  out once, so one that has been left behind is never met again. `ReadsHold`, for slack
  0: what a worker or an operation has read of a policy is still so when it is used.
* **`QueueProofs`** follows an event through store, queue, workers and table.
  `VersionsInv`: UIDs and generations tell versions apart. `FollowInv`: the store's version
  is in the table, or its item is on the queue or with a worker that has not read an older one. `NotedInv`: a
  tracked policy has a stage in its status, or an item, a retry or a call in progress that will put it there.
  `DownInv`: a process that is down remembers nothing. When nothing is queued and no worker
  busy, all disjuncts but the desired one are gone.
* **`RolloutProofs`**. `RolloutsInv` relates what is deployed, the position of the status and the
  table's index at each program counter: a deployed stage is that of the status or the next one;
  the next one only between a Create and the status update that announces it, or after a crash there; and outside a
  stage-up the stage the table calls active is deployed under the table's UID, unless a stage left by a crash is in the
  way. It rests on `CopiesInv` (every copy of a policy, in a store, a worker's hands or the
  table, is of the one that exists), `UidsDiffer`, `SpecsInv` (no Binding is
  noted and no condition attempted before a Create has succeeded in this life of the process) and `ItemsInv`
  (the policy's item is handled first in a life of the process, and that alone can start it anew).
* **`RefinementProofs`** proves of each action that it is a step of `StagedRollout` under
  `RolloutOf` or leaves all rollouts as they are; the Create is the interesting one: by
  `RolloutsInv` the position it deploys is that of the status or the next, and without crashes nothing else is deployed.
* **`ConditionProofs`**. `BearersInv`: a UID belongs to one BindingPolicy, wherever
  a Binding or status carries it. `StatusesInv`: there is one status per object and UID, and a worker has
  the one it was sent for. `BindingsInv`: the store's
  Binding is the API server's or older, of the same incarnation, with its item on the queue if a
  worker read another. `WakeInv`: the active stage's Binding in the store is in the table or on
  its way there; and if the condition holds by what the table and the store say, a check is in progress, or the item of one of
  the statuses it needs is on the queue or with a worker. `NotYetInv`: before its Create, nothing is deployed
  under the UID in the table. For `StagesLeftForGood`, `WorkloadInv`, `ReportsInv`, `TodoInv` and `CheckedInv`: all
  Bindings list the workload, a status in the store whose condition holds is still in the API
  server, and in the loop of `attemptConditionLocked` the condition holds on every object that has been
  checked, which are objects of the active Binding. That the table may still hold the previous stage's Binding does not
  matter then: it lists the same objects. `ListsInv`: a list of stages comes from a user.
* **`DataProofs`**. The lemmas hold of lists, workloads and names of any size; the
  theorems are their instances for the inputs of `MCData`. The recursion of `Cuts` is a recursive
  function, and the least prefix on which it had no solution would contradict itself (`CutExists`). From
  its defining equation (`CutsStep`) follows that a separator inside a name is a
  cut or follows one; so a name with one cut has no other separator but directly behind it.
* **`StartupProofs`**. `StartupInv` adds what each point of the start-up has behind it (`ProcessOK`: which
  informers run, whose handlers are in place, and which stores are filled). As a step changes the memory of one process only, it is enough
  that that process stays in order (`BecomesOK`).

**Model-checked only:** liveness (`RolloutCompletes`, `BecomesDeployed`, `DeletedIsForgotten`,
`ComesUp`), since the provers at hand do neither fairness nor `ENABLED`; and that the
properties of the five violation runs are violated. `NoPanic` with an unsafe list is
violated, so `PanicOnlyPastLastStage` says when.

## 5. Not modelled

* CEL's grammar, types and functions; the syntax of names beyond their labels.
* Flags other than `--leader-elect`, ports, client limits, the KubeConfig of the WDS
  (an external package): they decide whether the set-up fails, not what follows.
* Of the generated code: the verbs of the client the controller does not call, the
  factory's `Shutdown`, `WaitForCacheSync`, `ForResource` and options (none is called from
  this repository), the fake clientset (for tests, of which there are none), deep
  copies, scheme registration.
* Scripts and the CRD's schema.
* Unused helpers of `controller.go` (113-137, 345-382, 449-459).
* `serializeObject`, which feeds the evaluator a CombinedStatus: a condition's verdict is
  part of the status in the model.
* Two replicas that reconcile one WDS at a time: `leader_election` shows that they do; what
  their resolvers then do to each other's BindingPolicies would take a second
  copy of every variable of `Controller`.
* Real time: the queue's back-off is some finite delay.

## 6. Plan

Done: all modules above; every safety and action property that a passing run checks, and the refinement of
`StagedRollout`, is a theorem. Next:

1. Weaker hypotheses: `StatusMovesOneStage` and `DeployedNearStatus` with failed API
   calls before their effect; `SettledUnfulfilled` for the policies whose names split, while others' do not.
2. What an edit can leave deployed (`resolver.go:325`): that every BindingPolicy is that of a stage
   some spec of the same incarnation listed.
3. `StagesLeftForGood` with a changing workload: the condition held, at some earlier time, on each
   object of the Binding in the table.
4. A `WorkQueue` in FIFO order shown to implement the set of `Controller`; runs with faults together
   with edits, and with two policies.
