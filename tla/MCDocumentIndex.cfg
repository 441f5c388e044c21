SPECIFICATION Spec
CONSTANTS
    Worker = {w1, w2}
    Request = {r1}
    Task = {t1, t2}
    Batch = {b1, b2, b3}
    NoTask = NoTask
    NoBatch = NoBatch
    MaxRetries = 1
    MaxDeletes = 1
    Requesters = {TRUE}
    MaxFaults = 1
SYMMETRY Interchangeable
INVARIANTS
    TypeOK
    OneIndexer
    LockIsHeld
    
    DeletedLeavesNothing
    IndexingIsDriven
CHECK_DEADLOCK FALSE
