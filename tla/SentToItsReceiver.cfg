SPECIFICATION Spec
CONSTANTS
    c1 = c1
    c2 = c2
    l1 = l1
    l2 = l2
    Conns = {c1, c2}
    Uids = {u1, u2}
    Tokens = {t1}
    Loops = {l1, l2}
    LoopOf <- TwoLoops
    Rooms = {r1}
    Slots = {s1, s2}
    MaxMessages = 1
    MaxRecalls = 0
    MaxLogins = 3
    MaxFaults = 0
    MaxRestarts = 0
    NoConn = NoConn
    NoUid = NoUid
    NoToken = NoToken
    NoRoom = NoRoom
SYMMETRY Symmetry
INVARIANTS SentToItsReceiver
CHECK_DEADLOCK FALSE
