CONSTANTS
    Sp = {sp1, sp2}
    Channel = {ch1}
    NoUuid = NoUuid
    MaxBlock = 0
    MaxTime = 0
    MaxRegisters = 1
    MaxReseeds = 2
    MaxRestarts = 0
SPECIFICATION Spec
SYMMETRY Symmetry
INVARIANTS
    UuidNamesOneSuperPeer
CHECK_DEADLOCK FALSE
