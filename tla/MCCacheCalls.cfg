SPECIFICATION Spec
CONSTANTS
    loop = loop
    worker = worker
    Threads = {loop, worker}
    Types = {message, channel}
    message = message
    channel = channel
    MayUse <- MCMayUse
    Ids = {i1, i2}
    i1 = i1
    i2 = i2
    MaxSize = 2
    MaxSets = 3
    MaxCalls = 5
    NoNode = NoNode
INVARIANT OnlyMixedMisplaces
INVARIANT SafeApart
CHECK_DEADLOCK FALSE
