\* The seed of one PLC with a wire, then any edits and reverts.
SPECIFICATION FairSpec
CONSTANTS
    Types <- MCTypes
    Plcs <- MCPlcs
    Instances <- MCInstances
    Wires <- MCWires
    Key <- MCKey
    PlcOf <- MCPlcOf
    TypeOf <- MCTypeOf
    DeviceOf <- MCDeviceOf
    SrcPlc <- MCSrcPlc
    SrcDevice <- MCSrcDevice
    Dst <- MCDst
    MaxSteps <- MCMaxSteps
    SeedRows <- MCSeedRows
    SimPlcs <- MCSimPlcs
    Sound <- MCSound
    NoPlc = NoPlc
INVARIANTS TypeOK AuditReplays NoDeadEnd SeedComplete FreshStart
PROPERTIES SimStarts
