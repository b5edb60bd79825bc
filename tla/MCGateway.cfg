SPECIFICATION FairSpec
CONSTANTS
    h1 = h1
    h2 = h2
    Threads <- MCThreads
    NoThread = NoThread
    Interval = 2
    MaxSeq = 3
INVARIANTS
    IInv
    HeartbeatTracked
    HeartbeatStops
    FaultsExplained
    SeqIsLastHandled
    ContentOfOneConnection
PROPERTIES
    GivesUpBeforeLogin
    ExitEnds
    HeartbeatsGoOut
