CONSTANTS
    NULL = NULL
    NPages = 9
    RefMax = 3
    NPagesBasemem = 1
    IOHoleStart = 1
    IOHoleEnd = 1
    FirstFree = 2
    KernEnd = 1
    NSlots = 4
    UTopSlot = 2
    UVPTSlot = 2
    KernSlot = 3
    NENV = 2
    GenStep = 2
    IdMax = 5
    StackVA <- MCStackVA
    Machines <- MCMachines
SPECIFICATION Spec
INVARIANT NoKernelFault
