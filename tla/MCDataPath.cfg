\* Two PLCs whose devices feed each other.
SPECIFICATION FairSpec
CONSTANTS
    Plcs = {"P", "Q"}
    Devices = {"a", "b"}
    Ports = {"in_a", "in_b"}
    PlcOf <- MCPlcOf
    IdOf <- MCIdOf
    Owner <- MCOwner
    Tables <- MCTables
    None = None
    Manual = Manual
    Capacity = 1
    MaxTasks <- MCMaxTasks
    MaxStamp <- MCMaxStamp
    Settable = {"in_b"}
    MaxSetpoints = 1
PROPERTIES StaysAtSource ImplementsLatestValue EndsAtSource
