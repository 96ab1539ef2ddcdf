SPECIFICATION Spec
CONSTANTS
    a1 = a1  a2 = a2  n1 = n1  n2 = n2  n3 = n3  w1 = w1  w2 = w2  c1 = c1
    NoIp = NoIp
    Auth = {a1}
    Ips = {n1, n2}
    Watcherd = w1
    Circuitd = c1
    Daemons = {w1, c1}
    MaxRedirects = 1
    MaxRestarts = 0
INVARIANT TableMatchesStore
CHECK_DEADLOCK FALSE
