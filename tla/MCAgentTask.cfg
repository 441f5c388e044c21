SPECIFICATION Spec
CONSTANTS
    Worker = {w1, w2}
    Dispatcher = {d1}
    NoOwner = NoOwner
    Gone = Gone
    MaxRetries = 1
    LeaseOutlivesRun = TRUE
    MaxTurns = 1
    MaxGates = 2
    MaxMessages = 2
    MaxCrashes = 2
SYMMETRY Interchangeable
INVARIANTS
    TypeOK
    NoLeakedLease
    NewTaskIsDriven
    
    
    FirstGateNeedsAnswer
    RunningIsDriven
 
CHECK_DEADLOCK FALSE
