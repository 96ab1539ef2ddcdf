SPECIFICATION Spec
CONSTANTS
    a1 = a1  a2 = a2  b1 = b1  b2 = b2  b3 = b3  c1 = c1  c2 = c2
    k1 = k1  k2 = k2  k3 = k3
    NoNode = NoNode
    N = 3
    Hosts <- ThreePoPs
    Checks = {k1}
    MaxActive = 1
    MaxDown = 2
    Crashes = FALSE
    ShortAuths = FALSE
    Prompt = TRUE
INVARIANT SuccessMeansRepaired
CHECK_DEADLOCK FALSE
