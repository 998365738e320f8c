SPECIFICATION Spec
CONSTANTS
    p1 = p1
    dev = dev
    test = test
    prod = prod
    o1 = o1
    o2 = o2
    w1 = w1
    w2 = w2
    None = None
    SBPs = {p1}
    StageNames = {dev, prod}
    Objects = {o1}
    StageLists <- TwoStages
    EventKinds = {"create", "workload", "regress", "crash"}
    MaxEvents = 2
    MaxUid = 5
    OwnerOf <- Owners
    Workers = {w1, w2}
CHECK_DEADLOCK FALSE
SYMMETRY Symmetry
INVARIANTS
    TypeOK
    UidTracksStage
    SettledDeployed
    SettledUnfulfilled
    SettledNoted
PROPERTY ImplementsRollout
