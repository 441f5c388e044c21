SPECIFICATION FairSpec
CONSTANTS
    stream = stream
    plain = plain
    Request = {stream, plain}
    Streamed <- IsStreamed
    History = 1
    Threshold = 3
    QueueSize = 1
    MaxTokens = 2
    MaxVersions = 3
    FirstMessages = 3
INVARIANTS
    TypeOK NothingIsForgotten 
PROPERTIES
    EveryStreamEnds
CHECK_DEADLOCK FALSE
