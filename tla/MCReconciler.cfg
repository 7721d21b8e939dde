\* Two PLCs of one name, one of them refused, and a third; anything may fail.
SPECIFICATION FairSpec
CONSTANTS
    Rows <- MCRows
    Ids <- MCIds
    PlcId <- MCPlcId
    Names <- MCNames
    DeployName <- MCDeployName
    Rejected <- Bad
    NoRow = NoRow
    NoName = NoName
    Faulty = TRUE
INVARIANTS TypeOK NoKickLost
PROPERTIES NoWrongDelete DeploymentsConverge CycleAchieves CycleEnds
