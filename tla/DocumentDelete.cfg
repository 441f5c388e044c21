SPECIFICATION Spec
CONSTANTS
    Worker = {w1}
    Request = {r1}
    Task = {t1, t2}
    Batch = {b1, b2, b3}
    NoTask = NoTask
    NoBatch = NoBatch
    MaxRetries = 1
    Requesters = {TRUE}
    MaxDeletes = 1
    MaxFaults = 0
SYMMETRY Interchangeable
INVARIANT
    SurvivorIsSearchable
CHECK_DEADLOCK FALSE
