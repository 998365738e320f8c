SPECIFICATION Spec
CONSTANTS
    Labels = {"a", "b", "stage"}
    MaxLabels = 3
    Words = {"x", "y"}
CHECK_DEADLOCK FALSE
INVARIANTS
    OwnerRecovered
    WrongOwnerIsPrefix
    ResumesAtOrBefore
    FilterActsOnObjects
    FailsClosed
