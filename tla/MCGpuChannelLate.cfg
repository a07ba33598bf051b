\* One caller that waits for every response; a slot is released and signalled
\* again between the kernel's two stores.
SPECIFICATION FairSpec
CONSTANTS
    NumSlots = 1
    Zero = Zero
    add = add
    absent = absent
    FunctionIds = {add}
    Table <- OnlyAdd
    NullHandlers = {}
    SharedRing = FALSE
    c1 = c1
    c2 = c2
    Callers = {c1, c2}
    Owner = Owner
    NoOne = NoOne
    MayCancel = FALSE
    FireAndForget <- ReplyOnly
    Environments <- PatientOne
    PromptRetire = FALSE
INVARIANTS RetiresOwnRequest
CHECK_DEADLOCK FALSE
