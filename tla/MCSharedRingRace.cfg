CONSTANTS
    NumSlots = 2
    Zero = Zero
    Addresses = {c1}
    NoPeer = NoPeer
    FunctionIds <- MCFunctionIds
    Table <- MCTable
    NullHandlers = {"null"}
    SharedRing = TRUE
    Deployments <- Served
SPECIFICATION SharedSpec
INVARIANT RunAndSentOnce
CHECK_DEADLOCK FALSE
