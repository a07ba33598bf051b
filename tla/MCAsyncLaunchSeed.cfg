\* A broadcast over two QPUs with a random seed: the workers wait for each other.
SPECIFICATION FairSpec
CONSTANTS
    NumQpus = 2
    e1 = e1
    e2 = e2
    Exits = {e1, e2}
    Nobody = Nobody
    c1 = c1
    Threads <- MCThreads
    k1 = k1
    k2 = k2
    k3 = k3
    Keys = {k1, k2, k3}
    maxReadyEntries = 2
    NoAttempt = NoAttempt
    NoNoise = NoNoise
    NoKey = NoKey
    Environments <- Seeded
PROPERTY EveryBroadcastReturns
CHECK_DEADLOCK FALSE
