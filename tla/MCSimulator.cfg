SPECIFICATION FairSpec
CONSTANTS
    Devices <- MCDevices
    Fields <- MCFields
    Metrics <- MCMetrics
    Ports <- MCPorts
    Inputs <- MCInputs
    Outputs <- MCOutputs
    Live <- MCLive
    ClashWritable = TRUE
    MaxWrites = 2
    MaxValue = 3
INVARIANTS TypeOK NoLostInput FieldsAreKnown
PROPERTIES NodesNeverBack ImplementsJacobi EveryWriteStored NodesFollowState
