CONSTANTS
    Users <- MCUsers
    CONSBUFSIZE = 3
    KbdFifo = 2
    CRT_COLS = 2
    CRT_SIZE = 10
    BUFLEN = 8
    MAXARGS = 3
    Commands <- MCCommands
    Keys <- MCKeys
    IntBits = 8
    LongBits = 16
    ErrorTexts <- MCErrorTexts
    PrintBuf = 4
    Searches <- MCSearches
    Lookups <- MCLookups
    Formats <- MCFormats
    Copies <- MCCopies
    CopyRoom = 12
    Pairs <- MCPairs
    Numerals <- MCNumerals
SPECIFICATION MCSpec
INVARIANT StabSearchBrackets
