SPECIFICATION Spec
CONSTANTS
    TaskId = {a}
    HasScenario = TRUE
    MaxRepairs = 1
    MaxToolCalls = 7
    MaxSteps = 1
    MaxEdits = 1
    MaxCrashes = 1
    MaxChosen = 2
    MaxHeld = 1
INVARIANT
    LocalOnlyIsKept
CHECK_DEADLOCK FALSE
