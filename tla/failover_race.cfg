SPECIFICATION FairSpec
CONSTANTS
    a1 = a1  a2 = a2  b1 = b1  b2 = b2  b3 = b3  c1 = c1  c2 = c2
    k1 = k1  k2 = k2  k3 = k3
    NoNode = NoNode
    N = 2
    Hosts <- TwoPoPs
    Checks = {k1, k2}
    MaxActive = 2
    MaxDown = 1
    Crashes = TRUE
    ShortAuths = FALSE
    Prompt = FALSE
INVARIANT RoutedUnlessSwitching
PROPERTY ChecksAnswered
CHECK_DEADLOCK FALSE
