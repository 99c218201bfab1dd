SPECIFICATION FairSpec
CONSTANTS
    TcpFlows = {web}
    UdpFlows = {dns}
    Cleaners = {main, restart}
    MaxPackets = 2
INVARIANTS
    MappedIsWatched
    ClosedIsCleared
    OnlyPassedAreServed
    IInv
PROPERTIES
    ConnectionEnds
    UdpSocketCloses
    CarriageSpec
CHECK_DEADLOCK FALSE
