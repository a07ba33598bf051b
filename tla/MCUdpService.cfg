CONSTANTS
    NumSlots = 2
    Zero = Zero
    Addresses = {c1}
    NoPeer = NoPeer
    FunctionIds <- MCFunctionIds
    Table <- MCTable
    NullHandlers <- MCNullHandlers
    SharedRing = FALSE
    MaxArrivals = 4
    Arriving <- AnyDatagram
SPECIFICATION Spec
INVARIANTS
    TypeOK
    NoPageRace
    AtMostOnce
    RepliesAccounted
PROPERTY
    ImplementsRpcServer
CHECK_DEADLOCK FALSE
