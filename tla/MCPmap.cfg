CONSTANTS
    NULL = NULL
    NPages = 9
    RefMax = 4
    NPagesBasemem = 2
    IOHoleStart = 3
    IOHoleEnd = 4
    FirstFree = 6
    KernEnd = 5
    NSlots = 4
    UTopSlot = 2
    UVPTSlot = 2
    KernSlot = 3
    MapVAs <- MCMapVAs
    MapPerms <- MCMapPerms
    TlbMax = 1
SPECIFICATION MCSpec
INVARIANTS
    TypeOK
    FreeListComplete
    NoPanic
    ReservedUntouched
    RefCountExact
    FreeListExact
    TlbCoherent
    TablesPrivate
PROPERTIES
    ImplementsPhysPool
    ImplementsAddressSpace
