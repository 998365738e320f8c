SPECIFICATION FairSpec

CONSTANTS
    Replicas = {r1, r2}
    LeaderElect = TRUE
    MaxEvents = 4
    None = None

\* Processes that all run, or are parked, with no signals left rest there.
CHECK_DEADLOCK FALSE

INVARIANTS
    TypeOK
    ListedBeforeWork
    PoliciesListedLast
    ManagerlessOnlyBySignal

PROPERTY ComesUp
