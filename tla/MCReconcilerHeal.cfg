SPECIFICATION FairSpec
CONSTANTS
    Rows <- NodeRows
    Ids <- NodeIds
    PlcId <- NodePlcId
    Names <- NodeIds
    DeployName <- NodeName
    Rejected <- None
    NoRow = NoRow
    NoName = NoName
    Faulty = TRUE
PROPERTIES SelfHeals
