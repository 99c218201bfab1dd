SPECIFICATION FairSpec
CONSTANTS
    Sockets <- AllSockets
    ProtocolPorts = {53, 80}
    SeqModulus = 4
    Hosts <- TwoHosts
    AnswerSizes = {1, 3}
    UdpBuffer = 2
    MaxPackets = 3
INVARIANTS
    AnswersAreGenuine
    BlockedHearsNothing
    EndsHeard
    IInv
PROPERTIES
    QuestionsAnswered
    TalkSpec
CHECK_DEADLOCK FALSE
