\* Every configuration, two calling threads, two initializations.
SPECIFICATION Spec
CONSTANTS
    d0 = d0
    d1 = d1
    t1 = t1
    t2 = t2
    Devices = {d0, d1}
    DefaultDeviceId = d0
    Threads = {t1, t2}
    Configs <- AllConfigs
    None = None
    MaxSessions = 4
    MaxInits = 2
INVARIANTS TypeOK ReachableSessionsLive LatchHolds SessionsPerDevice
