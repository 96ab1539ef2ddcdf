SPECIFICATION FairSpec
CONSTANTS
    p1 = p1  p2 = p2  n1 = n1  n2 = n2  m2 = m2  s1 = s1  k1 = k1  k2 = k2
    PoPs = {p1, p2}
    PopIps <- MCPopIps
    MaxAuth = 1
    Servers = {s1}
    ServiceId <- MCServiceId
    Payloads <- MCPayloads
    Packets = {k1}
INVARIANTS TypeOK FollowsCircuits NoLoops RejectedOnlyAfterZero
PROPERTY PacketsEnd
CHECK_DEADLOCK FALSE
