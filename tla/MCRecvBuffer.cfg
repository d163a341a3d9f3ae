CONSTANTS
    FieldSize = 2
    DefaultSize = 8
    MaxSize = 12
    Streams <- MCStreams
SPECIFICATION FairSpec
INVARIANTS
    TypeOK
    ReadStaysInBuffer
    CrashesOnlyWhenClosed
    InStepWithStream
    FilledMessageIsWhole
PROPERTY
    ImplementsMessageStream
CHECK_DEADLOCK FALSE
