SPECIFICATION FairSpec
CONSTANTS
    w1 = w1
    w2 = w2
    w3 = w3
    upload = upload
    query = query
    Workers <- MCWorkers
    Requests <- MCRequests
    NoRequest = NoRequest
    WithFiles <- MCWithFiles
    WithCallback <- MCRequests
    Retries = 2
    MaxLimits = 1
INVARIANTS
    OneOwner
    CalledAtTheEnd
    FaultsExplained
    IInv
PROPERTY RequestEnds
CHECK_DEADLOCK FALSE
