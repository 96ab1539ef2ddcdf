SPECIFICATION Spec
CONSTANTS
    a1 = a1  a2 = a2  b1 = b1  b2 = b2  b3 = b3  c1 = c1  c2 = c2
    k1 = k1  k2 = k2  k3 = k3
    NoNode = NoNode
    N = 2
    Hosts <- OneEntry
    Checks = {k1}
    MaxActive = 1
    MaxDown = 0
    Crashes = FALSE
    ShortAuths = FALSE
    Prompt = TRUE
INVARIANT FailureMeansNoneWork
CHECK_DEADLOCK FALSE
