CONSTANTS
    Sp = {sp1}
    Channel = {ch1, ch2}
    NoUuid = NoUuid
    MaxBlock = 0
    MaxTime = 1
    MaxRegisters = 1
    MaxReseeds = 1
    MaxRestarts = 0
SPECIFICATION FairSpec
PROPERTIES
    ChannelsAreAnnounced
CHECK_DEADLOCK FALSE
