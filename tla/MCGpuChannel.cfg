\* Two callers without deadlines, one or two with them; calls with and without a
\* response, functions the kernel does not know, cancelled frames, restarts.
SPECIFICATION FairSpec
CONSTANTS
    NumSlots = 2
    Zero = Zero
    add = add
    absent = absent
    FunctionIds = {add, absent}
    Table <- OnlyAdd
    NullHandlers = {}
    SharedRing = FALSE
    c1 = c1
    c2 = c2
    Callers = {c1, c2}
    Owner = Owner
    NoOne = NoOne
    MayCancel = TRUE
    FireAndForget <- Both
    Environments <- PatientOrHasty
    PromptRetire = FALSE
INVARIANTS NoMismatch LeasesSound KernelKeepsToLeases
PROPERTIES EveryCallReturns
\* A cancelled frame can leave the kernel at a slot nobody will fill.
CHECK_DEADLOCK FALSE
