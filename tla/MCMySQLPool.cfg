SPECIFICATION FairSpec
CONSTANTS
    Threads = {w1, w2, w3, w4}
    Handles = {h1, h2, h3}
    NoHandle = NoHandle
    MaxSize = 2
INVARIANTS PoolInv ConnectionsAreExclusive PoolAccounts NoLostWakeup
PROPERTY WaitEnds
