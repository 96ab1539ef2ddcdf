SPECIFICATION EdgeSpec
CONSTANTS
    a1 = a1  n1 = n1  n2 = n2  n3 = n3  w1 = w1  c1 = c1  k1 = k1  k2 = k2  k3 = k3
    NoIp = NoIp
    Auth = {a1}
    Ips = {n1, n2, n3}
    Watcherd = w1
    Circuitd = c1
    Daemons = {w1, c1}
    Checks = {k1, k2}
    MaxKills = 1
    MaxRedirects = 1
    MaxRestarts = 1
INVARIANTS EdgeTypeOK StoredHopHasRule NoStaleRule
SYMMETRY Symmetry
CHECK_DEADLOCK FALSE
