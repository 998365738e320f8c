SPECIFICATION Spec

CONSTANTS
    Replicas = {r1, r2}
    LeaderElect = TRUE
    MaxEvents = 3
    None = None

INVARIANT AtMostOneActive
