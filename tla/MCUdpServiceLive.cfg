CONSTANTS
    NumSlots = 2
    Zero = Zero
    Addresses = {c1}
    NoPeer = NoPeer
    FunctionIds <- MCFunctionIds
    Table <- MCTable
    NullHandlers <- MCNullHandlers
    SharedRing = FALSE
    MaxArrivals = 4
    Arriving <- ServedOnly
SPECIFICATION FairSpec
INVARIANT RepliesInPublishOrder
PROPERTY EveryCallAnswered
CHECK_DEADLOCK FALSE
