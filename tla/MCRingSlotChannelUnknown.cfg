\* No datagram is lost and no deadline passes.
SPECIFICATION FairSpec
CONSTANTS
    NumSlots = 2
    Zero = Zero
    Service = Service
    Addresses = {Service}
    NoPeer = NoPeer
    add = add
    unknown = unknown
    FunctionIds = {add, unknown}
    Table <- MCTable
    NullHandlers = {}
    SharedRing = FALSE
    c1 = c1
    c2 = c2
    Callers = {c1}
    NoOne = NoOne
    Environments <- QuietOnly
    FireAndForget <- Both
PROPERTIES EveryDispatchAnswered
\* Callers may stop calling, and the channel may be closed.
CHECK_DEADLOCK FALSE
