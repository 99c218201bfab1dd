SPECIFICATION FairSpec
CONSTANTS
    TcpFlows = {web}
    UdpFlows = {dns}
    Cleaners = {}
    MaxPackets = 3
PROPERTY SocketsClose
CHECK_DEADLOCK FALSE
