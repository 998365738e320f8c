SPECIFICATION FairSpec
CONSTANTS
    p1 = p1
    dev = dev
    test = test
    prod = prod
    o1 = o1
    o2 = o2
    w1 = w1
    w2 = w2
    None = None
    SBPs = {p1}
    StageNames = {dev, prod}
    Objects = {o1}
    StageLists <- TwoStages
    EventKinds = {"create"}
    MaxEvents = 1
    MaxUid = 3
    OwnerOf <- Owners
    Workers = {w1}
CHECK_DEADLOCK FALSE
PROPERTIES
    RolloutCompletes
    BecomesDeployed
