SPECIFICATION FairSpec
CONSTANTS
    Run = {run}
    Api = {api}
    MaxTries = 2
    MaxIdle = 1
    ReloadIsPrompt = TRUE
    MaxEvents = 1
    MaxCuts = 1
    MaxTokens = 1
INVARIANTS
    TypeOK  LostOnlyIfOvertaken
PROPERTIES
    LogSpec 
CHECK_DEADLOCK FALSE
