SPECIFICATION Spec
CONSTANTS
    h1 = h1
    h2 = h2
    Threads <- MCThreads
    NoThread = NoThread
    Interval = 2
    MaxSeq = 3
INVARIANT ResumesOwnSession
