SPECIFICATION FairSpec
CONSTANTS
    m1 = m1
    m2 = m2
    h1 = h1
    h2 = h2
    d1 = d1
    d2 = d2
    None = None
    Managers <- MCManagers
    Handles <- MCHandles
    Dispatchers <- MCDispatchers
    MaxLoops = 2
    Environments <- MCEnvironments
INVARIANTS WiringSound KernelCodeLoaded RunningIffServing BridgesSound
PROPERTIES EveryCallReturns
CHECK_DEADLOCK FALSE
