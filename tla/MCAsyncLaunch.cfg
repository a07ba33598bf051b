\* Two QPUs, one client: failing and noisy samples, samples on the client's
\* thread, seeds, even and uneven broadcasts, options with and without a noise
\* model, and queues that are shut down under them.
SPECIFICATION FairSpec
CONSTANTS
    NumQpus = 2
    e1 = e1
    e2 = e2
    Exits = {e1, e2}
    Nobody = Nobody
    c1 = c1
    Threads <- MCThreads
    k1 = k1
    k2 = k2
    k3 = k3
    Keys = {k1, k2, k3}
    maxReadyEntries = 2
    NoAttempt = NoAttempt
    NoNoise = NoNoise
    NoKey = NoKey
    Environments <- Usual
INVARIANTS OneCompilationPerKey CacheSound QueuesSound TasksRunUnderOwnNoise
    BroadcastSound
PROPERTY EveryWaitEnds
CHECK_DEADLOCK FALSE
