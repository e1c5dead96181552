CONSTANTS
    NULL = NULL
    NPages = 9
    RefMax = 3
    NPagesBasemem = 1
    IOHoleStart = 1
    IOHoleEnd = 1
    FirstFree = 2
    KernEnd = 1
    NSlots = 4
    UTopSlot = 2
    UVPTSlot = 2
    KernSlot = 3
    NENV = 2
    GenStep = 2
    IdMax = 5
    PGSIZE = 2
    StackVA <- MCStackVA
    Binaries <- MCBinaries
    Chars = {10, 65}
    HogMax = 6
SPECIFICATION Spec
PROPERTY KernelFaultPanics
