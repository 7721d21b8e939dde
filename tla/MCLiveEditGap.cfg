\* Nothing fails; only this backend's API edits the plant.
SPECIFICATION FairSpec
CONSTANTS
    Names <- FewNames
    Endpoints <- FewEndpoints
    Opcua <- FewEndpoints
    NoPlc = NoPlc
    Wires <- FewWires
    Src <- FewPlcs
    Dst <- FewPlcs
    OtherWriters = FALSE
    Faulty = FALSE
    MaxInbox = 1
PROPERTIES EditsReachRuntime
