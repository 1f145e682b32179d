SPECIFICATION HSpec
CONSTANTS
    Conns = {c1, c2}
    Uids = {u1}
    Tokens = {t1, t2}
    Slots = {s1, s2}
    MaxRequests = 3
    MaxFaults = 0
    MaxRestarts = 0
    NoConn = NoConn
    NoUid = NoUid
    NoToken = NoToken
INVARIANT NewestLoginReachable
CHECK_DEADLOCK FALSE
