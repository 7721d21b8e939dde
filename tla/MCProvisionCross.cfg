\* A plant with a wire between two PLCs, seeded; the simulator of one of them.
SPECIFICATION FairSpec
CONSTANTS
    Types <- TwoTypes
    Plcs <- TwoPlcs
    Instances <- TwoInstances
    Wires <- TwoWires
    Key <- TwoKey
    PlcOf <- TwoPlcOf
    TypeOf <- TwoTypeOf
    DeviceOf <- TwoDeviceOf
    SrcPlc <- TwoSrcPlc
    SrcDevice <- TwoSrcDevice
    Dst <- TwoDst
    MaxSteps <- TwoMaxSteps
    SeedRows <- TwoRows
    SimPlcs <- TwoSimPlcs
    Sound <- TwoInstances
    NoPlc = NoPlc
PROPERTY CrossPlcStarts
