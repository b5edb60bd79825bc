SPECIFICATION Spec
CONSTANTS
    call1 = call1
    call2 = call2
    id1 = id1
    id2 = id2
    Nothing = Nothing
    Calls <- MCCalls
    Ids <- MCIds
    Commands <- MCCommands
    Replies <- MCReplies
    MaxObjects = 4
    Room = 3
SYMMETRY Symmetry
INVARIANTS
    
    CalledAsOften
    
    RequiredFirst
    
CHECK_DEADLOCK FALSE
