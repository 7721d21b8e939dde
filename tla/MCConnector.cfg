\* One connector with two nodes, a queue of two and a backoff table of two.
SPECIFICATION FairSpec
CONSTANTS
    Nodes <- MCNodes
    QueueCap = 2
    MaxFailures = 2
    MaxCmds = 3
    MaxStamp = 2
INVARIANTS
    TypeOK
    DrainedBeforePoll
PROPERTIES
    ImplementsChannel
    Recovers
    NeverGivesUp
    QueueEmpties
    TelemetryFollows
