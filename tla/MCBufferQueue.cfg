CONSTANTS
    BufferNumber = 3
    MediaBlockSize = 2
    Byte <- MCByte
    Unset = Unset
    Blocks <- MCBlocks
    AskedIds <- MCAskedIds
    NotFound = NotFound
    MaxPublished = 6
    a = a
    b = b
SPECIFICATION Spec
INVARIANTS
    TypeOK
    WindowIsLastBlocks
    IndicesAgree
    WindowHoldsItsBlocks
PROPERTY
    ImplementsBlockWindow
