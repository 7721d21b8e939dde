\* Any writer, failing queries, lost connections and crashes.
SPECIFICATION FairSpec
CONSTANTS
    Names <- MCNames
    Endpoints <- MCEndpoints
    Opcua <- MCOpcua
    NoPlc = NoPlc
    Wires <- MCWires
    Src <- MCSrc
    Dst <- MCDst
    OtherWriters = TRUE
    Faulty = TRUE
    MaxInbox = 2
INVARIANTS TypeOK WiresFollow ConnectorsFollow OneConnector
PROPERTIES WiresConverge KickFollows
