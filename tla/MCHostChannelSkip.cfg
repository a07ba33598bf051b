\* Two callers that always dispatch and wait.
SPECIFICATION FairSpec
CONSTANTS
    NumSlots = 2
    Zero = Zero
    add = add
    absent = absent
    FunctionIds = {add}
    Table <- OnlyAdd
    NullHandlers = {}
    SharedRing = FALSE
    c1 = c1
    c2 = c2
    Callers = {c1, c2}
    Owner = Owner
    NoOne = NoOne
    Environments <- Patient3
    MayCancel = FALSE
    FireAndForget <- ReplyOnly
PROPERTIES EveryDispatchAnswered
CHECK_DEADLOCK FALSE
