CONSTANTS
    Player = {p1, p2}
    Channel = {ch1, ch2}
    NoChannel = NoChannel
    MaxBlock = 0
    MaxUuid = 2
    GroupSize = 2
    inCount = 2
    Switchers = {p1}
    NoSearch = NoSearch
SPECIFICATION Spec
SYMMETRY Symmetry
INVARIANT
    TypeOK
    PeersHaveTheBlock
PROPERTY
    ReturnsOnlyAnew
CHECK_DEADLOCK FALSE
