SPECIFICATION HSpec
CONSTANTS
    Conns = {c1, c2}
    Uids = {u1, u2}
    Tokens = {t1, t2}
    Slots = {s1, s2}
    MaxRequests = 3
    MaxFaults = 1
    MaxRestarts = 1
    NoConn = NoConn
    NoUid = NoUid
    NoToken = NoToken
SYMMETRY Symmetry
INVARIANTS LoginInv SMInv SequentialLoginReachable TokenNamesItsOwner RevokedStaysRevoked RegisteredIsOpen
PROPERTY SMSpec
CHECK_DEADLOCK FALSE
