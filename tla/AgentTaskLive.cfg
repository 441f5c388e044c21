SPECIFICATION FairSpec
CONSTANTS
    Worker = {w1, w2}
    Dispatcher = {d1}
    NoOwner = NoOwner
    Gone = Gone
    MaxRetries = 1
    LeaseOutlivesRun = TRUE
    MaxTurns = 1
    MaxGates = 2
    MaxMessages = 1
    MaxCrashes = 0

PROPERTIES
    TaskIsPickedUp OutboxDrains 
CHECK_DEADLOCK FALSE
