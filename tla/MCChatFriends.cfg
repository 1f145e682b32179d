SPECIFICATION Spec
CONSTANTS
    Uids = {u1, u2}
    NoUid = NoUid
    Slots = {s1, s2}
    MaxRequests = 4
    MaxFaults = 1
    MaxRestarts = 1
SYMMETRY Symmetry
INVARIANTS FriendInv CacheIsSymmetric CacheAgreesWithTable
CHECK_DEADLOCK FALSE
