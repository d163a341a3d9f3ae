CONSTANTS
    BufferNumber = 2
    MediaBlockSize = 1
    Byte <- MCByte
    Unset = Unset
    Blocks <- OneBlock
    NotFound = NotFound
    a = a
    b = b
    Channel = {ch1}
    Cs = {cs1}
    Np = {np1, np2, np3}
    Header = {h1}
    NoHeader = NoHeader
    Uninitialised = Uninitialised
    NoMessage = NoMessage
    NoChannel = NoChannel
    RegisterHeaders = {h1}
    PushLists <- ShortPushLists
    IdleLimit = 2
    MaxPublished = 3
    MaxRegisters = 1
SPECIFICATION FairSpec
PROPERTIES
    PushListsEnd
    EndedConnectionsAreClosed
CHECK_DEADLOCK FALSE
