SPECIFICATION FairSpec
CONSTANTS
    n1 = n1
    c1 = c1
    NoConn = NoConn
    NpConns <- MCNpConns
    CsConns <- MCCsConns
    Timeout <- MCTimeout
    MaxDelay = 2
INVARIANTS
    TypeOK
    HandlersHaveTheirObjects
PROPERTIES
    FirstSignalWaits
    StartedThreadsLoop
    TimersFireAgain
\* A process that crashed stops.
CHECK_DEADLOCK FALSE
