\* One calling thread racing with finalize.
SPECIFICATION Spec
CONSTANTS
    d0 = d0
    d1 = d1
    t1 = t1
    t2 = t2
    Devices = {d0, d1}
    DefaultDeviceId = d0
    Threads = {t1}
    Configs <- ServiceOnly
    None = None
    MaxSessions = 4
    MaxInits = 2
INVARIANTS NoResurrection
