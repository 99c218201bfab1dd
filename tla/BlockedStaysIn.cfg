SPECIFICATION Spec
CONSTANTS
    TcpFlows = {web}
    UdpFlows = {dns}
    Cleaners = {main}
    MaxPackets = 2
INVARIANT BlockedStaysIn
CHECK_DEADLOCK FALSE
