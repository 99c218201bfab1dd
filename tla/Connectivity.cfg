SPECIFICATION FairSpec
CONSTANTS
    Sockets <- DnsAndWeb
    ProtocolPorts = {53, 80}
    SeqModulus = 4
    Hosts <- OneHost
    AnswerSizes = {1}
    UdpBuffer = 2
    MaxPackets = 2
PROPERTY Connectivity
CHECK_DEADLOCK FALSE
