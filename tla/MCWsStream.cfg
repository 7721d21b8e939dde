\* Any sequence of calls and of broken connections, with at most two sockets.
SPECIFICATION FairSpec
CONSTANTS
    Devices <- MCDevices
    Sockets <- MCSockets
    NoSocket = NoSocket
    MaxVersion = 2
    MaxInFlight = 2
    MaxTimers = 2
INVARIANTS OneSocket NeverStranded ShowsState
PROPERTIES NeverBack ScreenFollows
