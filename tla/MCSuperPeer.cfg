CONSTANTS
    BufferNumber = 2
    MediaBlockSize = 1
    Byte <- MCByte
    Unset = Unset
    Blocks <- MCBlocks
    NotFound = NotFound
    a = a
    b = b
    Channel = {ch1, ch2}
    Cs = {cs1}
    Np = {np1, np2}
    Header = {h1}
    NoHeader = NoHeader
    Uninitialised = Uninitialised
    NoMessage = NoMessage
    NoChannel = NoChannel
    RegisterHeaders = {NoHeader, h1}
    PushLists <- MCPushLists
    IdleLimit = 2
    MaxPublished = 3
    MaxRegisters = 2
SPECIFICATION Spec
SYMMETRY Symmetry
INVARIANTS
    TypeOK
    ServedBlockIsTheOneAsked
    OneHeaderBeforeBlocks
PROPERTIES
    ListFullyServed
    ImplementsStreamService
CHECK_DEADLOCK FALSE
