SPECIFICATION Spec
CONSTANTS
    c1 = c1
    c2 = c2
    l1 = l1
    l2 = l2
    Conns = {c1}
    Uids = {u1}
    Tokens = {t1}
    Loops = {l1, l2}
    LoopOf <- TwoLoops
    Rooms = {r1}
    Slots = {s1, s2, s3}
    MaxMessages = 3
    MaxRecalls = 0
    MaxLogins = 1
    MaxFaults = 1
    MaxRestarts = 1
    NoConn = NoConn
    NoUid = NoUid
    NoToken = NoToken
    NoRoom = NoRoom
SYMMETRY Symmetry
INVARIANTS SeqInv SeqHasNoGaps SeqFollowsCausality
CHECK_DEADLOCK FALSE
