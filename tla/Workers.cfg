SPECIFICATION FairSpec
CONSTANTS
    Threads = {w1, w2}
    Loops = {l1}
    MaxQueue = 1
    Uids = {u1}
    None = None
    MaxRequests = 3
    MaxFaults = 1
    MaxChanges = 2
INVARIANTS WorkersInv RegisteredAsAnswered RefusedIsTaken RecoversAfterOneFailure NoneIsForgotten
PROPERTY ComesToRest
