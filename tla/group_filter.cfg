SPECIFICATION Spec
CONSTANTS
    Labels = {"a"}
    MaxLabels = 1
    Words = {"x", "y"}
CHECK_DEADLOCK FALSE
INVARIANT GroupMeansGroup
