\* Two callers and no fault, or one caller with lost datagrams and deadlines.
SPECIFICATION FairSpec
CONSTANTS
    NumSlots = 2
    Zero = Zero
    Service = Service
    Addresses = {Service}
    NoPeer = NoPeer
    add = add
    unknown = unknown
    FunctionIds = {add}
    Table <- MCTable
    NullHandlers = {}
    SharedRing = FALSE
    c1 = c1
    c2 = c2
    Callers = {c1, c2}
    NoOne = NoOne
    Environments <- QuietAndFaulty
    FireAndForget <- Both
INVARIANTS NoMismatch WireSound
PROPERTIES EveryDispatchAnswered EveryDispatchReturns
\* Callers may stop calling, and the channel may be closed.
CHECK_DEADLOCK FALSE
