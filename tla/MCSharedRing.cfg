\* Both dispatchers, with and without the races of their readers.
SPECIFICATION SharedFairSpec
CONSTANTS
    NumSlots = 2
    Zero = Zero
    Addresses = {c1}
    NoPeer = NoPeer
    FunctionIds <- MCFunctionIds
    Table <- MCTable
    NullHandlers = {"null"}
    SharedRing = TRUE
    Deployments <- MCDeployments
INVARIANTS
    AnsweredOnce
    SlotsOwned
PROPERTY EveryCallServed
CHECK_DEADLOCK FALSE
