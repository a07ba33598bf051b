CONSTANTS
    NumSlots = 2
    Zero = Zero
    Addresses = {c1, c2}
    NoPeer = NoPeer
    FunctionIds <- MCFunctionIds
    Table <- MCTable
    NullHandlers <- MCNullHandlers
    SharedRing = FALSE
    MaxArrivals = 3
    Arriving <- AnyDatagram
SPECIFICATION UnifiedSpec
INVARIANT RepliesRight
PROPERTIES
    EveryCallAnswered
    ImplementsRpcServer
CHECK_DEADLOCK FALSE
