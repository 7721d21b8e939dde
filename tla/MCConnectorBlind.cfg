\* A browse that fails once.
SPECIFICATION FairSpec
CONSTANTS
    Nodes <- MCNodes
    QueueCap = 1
    MaxFailures = 2
    MaxCmds = 2
    MaxStamp = 2
PROPERTIES
    BrowseCompletes
