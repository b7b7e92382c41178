CONSTANTS
    b1 = b1
    b2 = b2
    Runs = {b1, b2}
    Commands <- MCCommands
    Foreign <- MCForeign
    SeedQty = 10
    MaxTroubles = 2
SPECIFICATION FairSpec
CHECK_DEADLOCK FALSE
INVARIANTS
    RowsHaveCausedEvents
    
    TraceIsCausal
    

    
    
