CONSTANTS
    Sp = {sp1, sp2}
    Channel = {ch1}
    NoUuid = NoUuid
    MaxBlock = 1
    MaxTime = 0
    MaxRegisters = 1
    MaxReseeds = 1
    MaxRestarts = 1
SPECIFICATION Spec
SYMMETRY Symmetry
INVARIANTS
    TypeOK
    RegisteredIsKnown
    SourcesAreReal
    SpListFits
    PromisedBlocksExist
CHECK_DEADLOCK FALSE
