CONSTANTS
    SECTSIZE = 2
    HdrSize = 4
    ELFHDR = 4
    RamSize = 64
    Kernels <- MCKernels
    NULL = NULL
    RefMax = 4
    IOHoleStart = 7
    IOHoleEnd = 9
    NSlots = 26
    UTopSlot = 19
    UEnvsSlot = 19
    UPagesSlot = 20
    UVPTSlot = 21
    KStackSlot = 23
    KernBaseSlot = 24
    KStkPages = 1
    PGSIZE = 4
    InfosPerPage = 16
    EnvPages = 1
    Ext16Start = 80
    CMOS <- MCCMOS
    CPU = {c1, c2, c3}
    NoCPU = NoCPU
SPECIFICATION MCSpec
INVARIANTS
    LoadedExact
    SelfTestsPass
    BootHandsOver
    MutualExclusion
    HoldingAccurate
PROPERTIES
    KernelStoresMapped
    ImplementsMutex
    SomeoneGetsIn
