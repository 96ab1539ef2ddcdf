SPECIFICATION FairSpec
CONSTANTS
    p1 = p1  p2 = p2  p3 = p3  c1 = c1  c2 = c2
    n1 = n1  n2 = n2  n3 = n3  m2 = m2  s1 = s1  s2 = s2
    PoPs = {p1, p2, p3}
    Clients = {c1, c2}
    Path <- MCPath
    PopIps <- MCPopIps
    Server <- MCServer
    ServiceId <- MCServiceId
    MaxAuth = 1
INVARIANTS TypeOK CompleteCircuits NextHopExists OwnRoute
PROPERTIES StoreSpec EveryClientEnds
CHECK_DEADLOCK FALSE
