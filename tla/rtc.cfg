SPECIFICATION FairSpec
CONSTANTS
    Configs = {"none", "stream", "sdp", "family"}
    Datagrams <- PeerDatagrams
    Timeouts = {"nothing", "retransmit", "disconnected", "failed", "drained"}
    Sizes = {0, 2, 3, 4}
    Caps = {2, 5}
    DefaultCap = 5
    MaxMessageSize = 3
    BufferLength = 2
    BacklogLimit = 2
    HandshakeTimeout = 1
    MaxTime = 1
    MaxInputs = 5
    MaxSends = 2
INVARIANTS TypeOK TimeoutIsHonest TraceComplete DeliveredInOrder NothingStranded
PROPERTIES KeepsContract SendWithinCap HandshakeEnds
CHECK_DEADLOCK FALSE
