SPECIFICATION Spec
CONSTANTS
    t = t
    u = u
    goal = goal
    rag = rag
    cache = cache
    map = map
    Task = {t, u}
    Question = {}
    Goal = {goal}
    GoalOf <- SameGoal
    Topics <- TopicsOf
    Severity <- SeverityOf
    Score <- ScoreOf
    Assets <- OneAsset
    EventLimit = 1
    MaxEvents = 2
    MaxRuns <- RunsOf
INVARIANTS
    TypeOK  GapsAreOvertaken OutputsAreWhole
CHECK_DEADLOCK FALSE
