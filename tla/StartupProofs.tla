---------------------------- MODULE StartupProofs ----------------------------
(***************************************************************************)
(* Type correctness and the order of the start-up, for any number of       *)
(* replicas, failures and signals, with or without leader election.        *)
(***************************************************************************)
EXTENDS Startup, TLAPS

-----------------------------------------------------------------------------
(* The inductive invariant: what each point of the start-up has behind it. *)

StoresFilled(p) == p.pc \in {"grace", "electing", "managing", "stopping", "parked"}

ProcessOK(p) ==
    /\ p.ks.started \subseteq p.ks.informers
    /\ p.synced \subseteq p.ks.started \cup p.sbp.started
    /\ p.queued \subseteq p.synced \cap p.handlers
    /\ p.pc \in {"down", "main", "created"} => p.ks.started = {}
    /\ p.pc \in {"down", "main", "created", "ksWait"} => p.sbp.started = {}
    /\ p.pc \notin {"down", "main", "created"} => p.handlers = Kinds
    /\ p.pc = "sbpWait" => KsKinds \subseteq p.synced
    /\ StoresFilled(p) => p.synced = Kinds
    /\ p.working => StoresFilled(p)
    /\ p.pc \in {"stopping", "parked"} => p.signalled

StartupInv ==
    /\ process \in [Replicas -> Processes]
    /\ lease \in Replicas \cup {None}
    /\ events \in 0..MaxEvents
    /\ \A r \in Replicas : ProcessOK(process[r])

-----------------------------------------------------------------------------
(* A process that does not run is in order.                                *)
LEMMA NotRunningOK == NotRunning \in Processes /\ ProcessOK(NotRunning)
  BY DEF NotRunning, Processes, ProcessOK, StoresFilled, Factories, NewSharedInformerFactory

(* A step of one process keeps the invariant if it leaves that process in  *)
(* order; what the others remember does not change.                        *)
LEMMA BecomesOK ==
  ASSUME StartupInv, NEW r \in Replicas, NEW p \in Processes, ProcessOK(p), Becomes(r, p),
         lease' \in Replicas \cup {None}, events' \in 0..MaxEvents
  PROVE  StartupInv'
  <1>1. process' \in [Replicas -> Processes]
    BY DEF StartupInv, Becomes
  <1>2. ASSUME NEW q \in Replicas PROVE ProcessOK(process'[q])
    <2>1. process'[q] = IF q = r THEN p ELSE process[q]
      BY DEF StartupInv, Becomes
    <2> QED BY <2>1 DEF StartupInv
  <1>3. (\A q \in Replicas : ProcessOK(process[q]))'
    BY <1>2
  <1> QED BY <1>1, <1>3 DEF StartupInv

(* Events are counted up to their bound.                                   *)
LEMMA EventOK ==
  ASSUME events \in 0..MaxEvents, Event
  PROVE  events' \in 0..MaxEvents
  BY StartupAssumption DEF Event

(* A failure or a signal may end a process at any point.                   *)
LEMMA ExitOK ==
  ASSUME StartupInv, NEW r \in Replicas, Event, Exit(r), UNCHANGED lease
  PROVE  StartupInv'
  <1>1. events' \in 0..MaxEvents
    BY EventOK DEF StartupInv
  <1> QED BY <1>1, NotRunningOK, BecomesOK DEF Exit, StartupInv

(* A process goes on to another point.                                     *)
LEMMA GotoOK ==
  ASSUME StartupInv, NEW r \in Replicas, NEW pc, Goto(r, pc),
         [process[r] EXCEPT !.pc = pc] \in Processes,
         ProcessOK([process[r] EXCEPT !.pc = pc]),
         lease' \in Replicas \cup {None}, events' \in 0..MaxEvents
  PROVE  StartupInv'
  BY BecomesOK DEF Goto

(* The set-up makes the informers and starts none.                         *)
LEMMA SetUpOK ==
  ASSUME NEW p \in Processes, ProcessOK(p), p.pc = "main"
  PROVE  LET new == [NewController(p) EXCEPT !.pc = "created"]
         IN  new \in Processes /\ ProcessOK(new)
  BY DEF Processes, ProcessOK, StoresFilled, NewController, makeController, InformerFor,
         NewSharedInformerFactory, Factories, KsKinds, Kinds

(* The first factory starts its informers with all handlers in place.      *)
LEMMA StartKsOK ==
  ASSUME NEW p \in Processes, ProcessOK(p), p.pc = "created"
  PROVE  LET new == [p EXCEPT !.pc = "ksWait", !.handlers = Kinds, !.ks = Start(@)]
         IN  new \in Processes /\ ProcessOK(new)
  BY DEF Processes, ProcessOK, StoresFilled, Start, Factories, KsKinds, Kinds

(* The second factory starts once the first one's stores are filled.       *)
LEMMA StartSbpOK ==
  ASSUME NEW p \in Processes, ProcessOK(p), p.pc = "ksWait", KsSynced(p)
  PROVE  LET new == [p EXCEPT !.pc = "sbpWait", !.sbp = Start(@)]
         IN  new \in Processes /\ ProcessOK(new)
  BY DEF Processes, ProcessOK, StoresFilled, Start, Factories, KsKinds, Kinds, KsSynced, Synced

(* An informer that has been started fills its store.                      *)
LEMMA ListOK ==
  ASSUME NEW p \in Processes, ProcessOK(p), NEW kind \in p.ks.started \cup p.sbp.started
  PROVE  LET new == [p EXCEPT !.synced = @ \cup {kind}]
         IN  new \in Processes /\ ProcessOK(new)
  <1> DEFINE new == [p EXCEPT !.synced = @ \cup {kind}]
  <1>1. kind \in Kinds
    BY DEF Processes, Factories, KsKinds, Kinds
  <1>2. new \in Processes
    BY <1>1 DEF Processes
  <1>3. /\ new.pc = p.pc /\ new.ks = p.ks /\ new.sbp = p.sbp /\ new.handlers = p.handlers
        /\ new.working = p.working /\ new.signalled = p.signalled
        /\ new.synced = p.synced \cup {kind} /\ new.queued = p.queued
    BY DEF Processes
  <1>4. p.synced = Kinds => p.synced \cup {kind} = Kinds
    BY <1>1
  <1>5. ProcessOK(new)
    BY <1>3, <1>4 DEF ProcessOK, StoresFilled
  <1> QED BY <1>2, <1>5

(* A handler is called for what is in its informer's store.                *)
LEMMA HandleOK ==
  ASSUME NEW p \in Processes, ProcessOK(p), NEW kind \in p.synced \cap p.handlers
  PROVE  LET new == [p EXCEPT !.queued = @ \cup {kind}]
         IN  new \in Processes /\ ProcessOK(new)
  BY DEF Processes, ProcessOK, StoresFilled

-----------------------------------------------------------------------------
(* The first state and every step.                                         *)
LEMMA InitStartup == Init => StartupInv
  BY NotRunningOK, StartupAssumption DEF Init, StartupInv

LEMMA NextStartup == StartupInv /\ [Next]_vars => StartupInv'
  <1> SUFFICES ASSUME StartupInv, [Next]_vars PROVE StartupInv'
    OBVIOUS
  <1> USE DEF StartupInv
  <1>0. \A r \in Replicas : process[r] \in Processes /\ ProcessOK(process[r])
    OBVIOUS
  <1>1. ASSUME NEW r \in Replicas, Boot(r) PROVE StartupInv'
    <2>1. [process[r] EXCEPT !.pc = "main"] \in Processes
      BY <1>0 DEF Processes
    <2>2. ProcessOK([process[r] EXCEPT !.pc = "main"])
      BY <1>0, <1>1 DEF Boot, At, Processes, ProcessOK, StoresFilled
    <2> QED BY <1>1, <2>1, <2>2, GotoOK DEF Boot
  <1>2. ASSUME NEW r \in Replicas, SetUp(r) PROVE StartupInv'
    BY <1>0, <1>2, SetUpOK, BecomesOK DEF SetUp, At
  <1>3. ASSUME NEW r \in Replicas, StartKs(r) PROVE StartupInv'
    BY <1>0, <1>3, StartKsOK, BecomesOK DEF StartKs, At
  <1>4. ASSUME NEW r \in Replicas, StartSbp(r) PROVE StartupInv'
    BY <1>0, <1>4, StartSbpOK, BecomesOK DEF StartSbp, At
  <1>5. ASSUME NEW r \in Replicas, NEW kind \in Kinds, List(r, kind) PROVE StartupInv'
    BY <1>0, <1>5, ListOK, BecomesOK DEF List
  <1>6. ASSUME NEW r \in Replicas, NEW kind \in Kinds, Handle(r, kind) PROVE StartupInv'
    BY <1>0, <1>6, HandleOK, BecomesOK DEF Handle
  <1>7. ASSUME NEW r \in Replicas, LaunchRun(r) PROVE StartupInv'
    <2>1. [process[r] EXCEPT !.pc = "grace"] \in Processes
      BY <1>0 DEF Processes
    <2>2. ProcessOK([process[r] EXCEPT !.pc = "grace"])
      BY <1>0, <1>7 DEF LaunchRun, At, Processes, ProcessOK, StoresFilled, SbpSynced, Synced,
                        KsKinds, Kinds
    <2> QED BY <1>7, <2>1, <2>2, GotoOK DEF LaunchRun
  <1>8. ASSUME NEW r \in Replicas, RunWorkers(r) PROVE StartupInv'
    <2> DEFINE new == [process[r] EXCEPT !.working = TRUE]
    <2>1. new \in Processes
      BY <1>0 DEF Processes
    <2>2. ProcessOK(new)
      BY <1>0, <1>8 DEF RunWorkers, ManagerRuns, At, Processes, ProcessOK, StoresFilled
    <2> QED BY <1>8, <2>1, <2>2, BecomesOK DEF RunWorkers
  <1>9. ASSUME NEW r \in Replicas, StartManager(r) PROVE StartupInv'
    <2> DEFINE pc == IF LeaderElect THEN "electing" ELSE "managing"
    <2>1. [process[r] EXCEPT !.pc = pc] \in Processes
      BY <1>0 DEF Processes
    <2>2. ProcessOK([process[r] EXCEPT !.pc = pc])
      BY <1>0, <1>9 DEF StartManager, At, Processes, ProcessOK, StoresFilled
    <2> QED BY <1>9, <2>1, <2>2, GotoOK DEF StartManager
  <1>10. ASSUME NEW r \in Replicas, Acquire(r) PROVE StartupInv'
    <2>1. [process[r] EXCEPT !.pc = "managing"] \in Processes
      BY <1>0 DEF Processes
    <2>2. ProcessOK([process[r] EXCEPT !.pc = "managing"])
      BY <1>0, <1>10 DEF Acquire, At, Processes, ProcessOK, StoresFilled
    <2> QED BY <1>10, <2>1, <2>2, GotoOK DEF Acquire
  <1>11. ASSUME NEW r \in Replicas, Park(r) PROVE StartupInv'
    <2>1. [process[r] EXCEPT !.pc = "parked"] \in Processes
      BY <1>0 DEF Processes
    <2>2. ProcessOK([process[r] EXCEPT !.pc = "parked"])
      BY <1>0, <1>11 DEF Park, At, Processes, ProcessOK, StoresFilled
    <2> QED BY <1>11, <2>1, <2>2, GotoOK DEF Park
  <1>12. ASSUME NEW r \in Replicas, SetupFails(r) \/ ManagerFails(r) \/ StopFails(r)
         PROVE  StartupInv'
    BY <1>12, ExitOK DEF SetupFails, ManagerFails, StopFails
  <1>13. ASSUME NEW r \in Replicas, Signal(r) PROVE StartupInv'
    <2> DEFINE new == [process[r] EXCEPT !.pc = "stopping", !.signalled = TRUE]
    <2>1. CASE ManagerRuns(process[r]) /\ ~process[r].signalled
      <3>1. new \in Processes
        BY <1>0 DEF Processes
      <3>2. ProcessOK(new)
        BY <1>0, <2>1 DEF ManagerRuns, Processes, ProcessOK, StoresFilled
      <3>3. events' \in 0..MaxEvents
        BY <1>13, EventOK DEF Signal
      <3> QED BY <1>13, <2>1, <3>1, <3>2, <3>3, BecomesOK DEF Signal
    <2>2. CASE ~(ManagerRuns(process[r]) /\ ~process[r].signalled)
      BY <1>13, <2>2, ExitOK DEF Signal
    <2> QED BY <2>1, <2>2
  <1>14. CASE LeaseExpires
    BY <1>14 DEF LeaseExpires
  <1>15. CASE UNCHANGED vars
    BY <1>15 DEF vars
  <1> QED
    BY <1>1, <1>2, <1>3, <1>4, <1>5, <1>6, <1>7, <1>8, <1>9, <1>10, <1>11, <1>12, <1>13, <1>14, <1>15
    DEF Next, ProcessStep

LEMMA StartupInvariant == Spec => []StartupInv
  BY InitStartup, NextStartup, PTL DEF Spec

-----------------------------------------------------------------------------
(* Every state of the processes and of the lease has its type, and a store *)
(* is filled only by an informer that was made and started.                *)
THEOREM StartupTypeCorrect == Spec => []TypeOK
  <1>1. StartupInv => TypeOK
    BY DEF StartupInv, ProcessOK, TypeOK
  <1> QED BY <1>1, StartupInvariant, PTL

(* Controller.Start, main: no worker of any replica runs, and no probe is  *)
(* answered, before all that existed at the start is in the stores.        *)
THEOREM WorkersStartLast == Spec => []ListedBeforeWork
  <1>1. StartupInv => ListedBeforeWork
    BY DEF StartupInv, ProcessOK, StoresFilled, ListedBeforeWork, ManagerRuns, Active
  <1> QED BY <1>1, StartupInvariant, PTL

(* Controller.Start: the policies are listed after all they refer to.      *)
THEOREM PoliciesLast == Spec => []PoliciesListedLast
  <1>1. ASSUME NEW p \in Processes, ProcessOK(p), "StagedBindingPolicy" \in p.synced
        PROVE  KsKinds \subseteq p.synced
    BY <1>1 DEF Processes, Factories, ProcessOK, StoresFilled, Kinds, KsKinds
  <1>2. StartupInv => PoliciesListedLast
    BY <1>1 DEF StartupInv, PoliciesListedLast
  <1> QED BY <1>2, StartupInvariant, PTL

(* main: a process works on without its manager only after a signal.       *)
THEOREM ManagerlessWasSignalled == Spec => []ManagerlessOnlyBySignal
  <1>1. StartupInv => ManagerlessOnlyBySignal
    BY DEF StartupInv, ProcessOK, StoresFilled, ManagerlessOnlyBySignal, ManagerRuns, Active, At
  <1> QED BY <1>1, StartupInvariant, PTL
=============================================================================
