------------------------------- MODULE Startup -------------------------------
(***************************************************************************)
(* From the start of a controller-manager process to its end: main, the    *)
(* controller's NewController and Start, the manager with its probes and   *)
(* its leader election, and the signals.  Controller begins where this     *)
(* module ends, its Restart being all of Boot .. RunWorkers in one step.   *)
(***************************************************************************)
EXTENDS Naturals, InformerFactory

CONSTANTS
    Replicas,      \* processes that serve one workload description space
    LeaderElect,   \* the flag --leader-elect
    MaxEvents,     \* bound on failures and signals
    None

ASSUME StartupAssumption ==
    /\ LeaderElect \in BOOLEAN
    /\ MaxEvents \in Nat
    /\ None \notin Replicas

VARIABLES
    process,   \* the memory of each process
    lease,     \* who holds the lease "placement-stager.community.kubestellar.org"
    events     \* failures and signals so far

vars == <<process, lease, events>>

KsKinds == {"Binding", "CombinedStatus"}

Kinds == KsKinds \cup {"StagedBindingPolicy"}

\* A process that does not run, or that has just begun to.
NotRunning ==
    [pc |-> "down", ks |-> NewSharedInformerFactory, sbp |-> NewSharedInformerFactory,
     handlers |-> {}, synced |-> {}, queued |-> {}, working |-> FALSE, signalled |-> FALSE]

ManagerRuns(p) == p.pc \in {"electing", "managing", "stopping"}

Processes ==
    [pc : {"down", "main", "created", "ksWait", "sbpWait", "grace", "electing", "managing",
           "stopping", "parked"},
     ks : Factories(KsKinds), sbp : Factories(Kinds \ KsKinds),
     handlers : SUBSET Kinds, synced : SUBSET Kinds, queued : SUBSET Kinds,
     working : BOOLEAN, signalled : BOOLEAN]

(* An informer is started once made, and its store filled once started.    *)
TypeOK ==
    /\ process \in [Replicas -> Processes]
    /\ \A r \in Replicas :
         /\ process[r].ks.started \subseteq process[r].ks.informers
         /\ process[r].synced \subseteq process[r].ks.started \cup process[r].sbp.started
    /\ lease \in Replicas \cup {None}
    /\ events \in 0..MaxEvents

Init ==
    /\ process = [r \in Replicas |-> NotRunning]
    /\ lease = None
    /\ events = 0

Event ==
    /\ events < MaxEvents
    /\ events' = events + 1

At(r, pc) == process[r].pc = pc

\* Replica r goes on with memory p; nothing of another process changes.
Becomes(r, p) == process' = [process EXCEPT ![r] = p]

Goto(r, pc) == Becomes(r, [process[r] EXCEPT !.pc = pc])

Exit(r) == Becomes(r, NotRunning)

-----------------------------------------------------------------------------
(* main and NewController.                                                 *)

Boot(r) ==
    /\ At(r, "down")
    /\ Goto(r, "main")
    /\ UNCHANGED <<lease, events>>

makeController(p) ==
    [p EXCEPT !.ks = InformerFor(InformerFor(@, "Binding"), "CombinedStatus"),
              !.sbp = InformerFor(@, "StagedBindingPolicy")]

\* The controller takes its informers from two new factories.
NewController(p) ==
    makeController([p EXCEPT !.ks = NewSharedInformerFactory, !.sbp = NewSharedInformerFactory])

\* The manager is made, the WDS found, and the controller made.
SetUp(r) ==
    /\ At(r, "main")
    /\ Becomes(r, [NewController(process[r]) EXCEPT !.pc = "created"])
    /\ UNCHANGED <<lease, events>>

\* NewManager, a check, GetWDSKubeconfig or NewController returns an error, or
\* Controller.Start before any informer runs: a handler or the evaluator.
SetupFails(r) ==
    /\ At(r, "main") \/ At(r, "created")
    /\ Event
    /\ Exit(r)
    /\ UNCHANGED lease

-----------------------------------------------------------------------------
(* Controller.Start.                                                       *)

Synced(p, kinds) == kinds \subseteq p.synced

\* Mutants: the wait is for the stores of both factories, or for none.
AwaitsAll(p) == Synced(p, Kinds)

AwaitsNothing(p) == TRUE

KsSynced(p) == Synced(p, KsKinds)

SbpSynced(p) == Synced(p, Kinds \ KsKinds)

\* The handlers are set up and the resolver made before any informer runs.
StartKs(r) ==
    /\ At(r, "created")
    /\ Becomes(r, [process[r] EXCEPT !.pc = "ksWait", !.handlers = Kinds, !.ks = Start(@)])
    /\ UNCHANGED <<lease, events>>

StartSbp(r) ==
    /\ At(r, "ksWait")
    /\ KsSynced(process[r])
    /\ Becomes(r, [process[r] EXCEPT !.pc = "sbpWait", !.sbp = Start(@)])
    /\ UNCHANGED <<lease, events>>

\* Mutant: an informer runs as soon as it is made.
ListsWhenMade(r, kind) ==
    /\ kind \in (process[r].ks.informers \cup process[r].sbp.informers) \ process[r].synced
    /\ Becomes(r, [process[r] EXCEPT !.synced = @ \cup {kind}])
    /\ UNCHANGED <<lease, events>>

\* An informer has put what exists into its store: HasSynced says so, whether
\* or not the handlers have been called.
List(r, kind) ==
    /\ kind \in (process[r].ks.started \cup process[r].sbp.started) \ process[r].synced
    /\ Becomes(r, [process[r] EXCEPT !.synced = @ \cup {kind}])
    /\ UNCHANGED <<lease, events>>

\* A goroutine of the informer's own has called the handler for each of them.
Handle(r, kind) ==
    /\ kind \in (process[r].synced \cap process[r].handlers) \ process[r].queued
    /\ Becomes(r, [process[r] EXCEPT !.queued = @ \cup {kind}])
    /\ UNCHANGED <<lease, events>>

\* go c.run(...), of which three seconds are waited for an error.
LaunchRun(r) ==
    /\ At(r, "sbpWait")
    /\ SbpSynced(process[r])
    /\ Goto(r, "grace")
    /\ UNCHANGED <<lease, events>>

\* The goroutine starts the workers; the three seconds may be over by then.
RunWorkers(r) ==
    /\ At(r, "grace") \/ ManagerRuns(process[r]) \/ At(r, "parked")
    /\ ~process[r].working
    /\ Becomes(r, [process[r] EXCEPT !.working = TRUE])
    /\ UNCHANGED <<lease, events>>

-----------------------------------------------------------------------------
(* The manager: it answers the probes, and with leader election waits for  *)
(* the lease.  Its lead is nothing the controller asks for.                *)

StartManager(r) ==
    /\ At(r, "grace")
    /\ Goto(r, IF LeaderElect THEN "electing" ELSE "managing")
    /\ UNCHANGED <<lease, events>>

Acquire(r) ==
    /\ At(r, "electing")
    /\ lease = None
    /\ lease' = r
    /\ Goto(r, "managing")
    /\ UNCHANGED events

\* Mutant: the error of mgr.Start is logged, and main goes on to its select.
ManagerErrorIgnored(r) ==
    /\ At(r, "managing")
    /\ Event
    /\ Goto(r, "parked")
    /\ UNCHANGED lease

\* mgr.Start returns an error: the lease is lost, or a server cannot listen.
ManagerFails(r) ==
    /\ At(r, "electing") \/ At(r, "managing")
    /\ Event
    /\ Exit(r)
    /\ UNCHANGED lease

\* The lease is not released, it runs out when its holder renews it no more.
LeaseExpires ==
    /\ lease # None
    /\ process[lease].pc # "managing"
    /\ lease' = None
    /\ UNCHANGED <<process, events>>

-----------------------------------------------------------------------------
(* Signals.  The handler is not set up before the manager starts; it stops *)
(* the manager at the first signal and the process at the second.          *)

Signal(r) ==
    /\ ~At(r, "down")
    /\ Event
    /\ IF ManagerRuns(process[r]) /\ ~process[r].signalled
       THEN Becomes(r, [process[r] EXCEPT !.pc = "stopping", !.signalled = TRUE])
       ELSE Exit(r)
    /\ UNCHANGED lease

\* mgr.Start returns nil, and main waits in its empty select.
Park(r) ==
    /\ At(r, "stopping")
    /\ Goto(r, "parked")
    /\ UNCHANGED <<lease, events>>

\* What the manager runs does not stop in time: mgr.Start returns an error.
StopFails(r) ==
    /\ At(r, "stopping")
    /\ Event
    /\ Exit(r)
    /\ UNCHANGED lease

-----------------------------------------------------------------------------
\* What a process does by itself once it has been started.
ProcessStep(r) ==
    \/ SetUp(r) \/ StartKs(r) \/ StartSbp(r)
    \/ \E kind \in Kinds : List(r, kind) \/ Handle(r, kind)
    \/ LaunchRun(r) \/ RunWorkers(r)
    \/ StartManager(r) \/ Acquire(r) \/ Park(r)

Next ==
    \/ \E r \in Replicas : ProcessStep(r) \/ Boot(r) \/ SetupFails(r) \/ ManagerFails(r)
                             \/ Signal(r) \/ StopFails(r)
    \/ LeaseExpires

Spec == Init /\ [][Next]_vars

\* Go schedules the goroutines, the API server answers lists, and time passes.
FairSpec == Spec /\ \A r \in Replicas : WF_vars(ProcessStep(r))

-----------------------------------------------------------------------------
(* Properties.                                                             *)

Active(r) == process[r].working

(* No worker runs, and no probe is answered, before all three stores are   *)
(* filled (controller.go:195-203, main.go:140-147): what a worker does not *)
(* find was not there when the process started, which Controller!Restart   *)
(* takes for granted.  Nothing is said of the queue: the handlers may be   *)
(* called later.                                                           *)
ListedBeforeWork ==
    \A r \in Replicas : Active(r) \/ ManagerRuns(process[r]) => process[r].synced = Kinds

(* The policies are listed only once the stores of Bindings and            *)
(* CombinedStatuses are filled (controller.go:195-203): what a policy's    *)
(* first resolution looks up is what there was.                            *)
PoliciesListedLast ==
    \A r \in Replicas : "StagedBindingPolicy" \in process[r].synced => KsKinds \subseteq process[r].synced

(* Only a process that was told to stop keeps reconciling without its      *)
(* manager; one whose manager has failed, say because it lost the lease,   *)
(* exits (main.go:146-150).                                                *)
ManagerlessOnlyBySignal ==
    \A r \in Replicas : Active(r) => At(r, "grace") \/ ManagerRuns(process[r]) \/ process[r].signalled

(* A process that is started gets its workers to run with all that existed *)
(* handed to the queue, or ends: none of the waits of Controller.Start     *)
(* waits for what comes after it, and no informer lacks its handler.       *)
ComesUp ==
    \A r \in Replicas : At(r, "main") ~> (Active(r) /\ process[r].queued = Kinds) \/ At(r, "down")

(* "Enabling this will ensure there is only one active controller          *)
(* manager." (main.go:70-72)                                               *)
AtMostOneActive == LeaderElect => \A q, r \in Replicas : Active(q) /\ Active(r) => q = r
=============================================================================
