SPECIFICATION Spec
CONSTANTS
    Policy = "drop"
    EventBatchSize = 2
    InputBatch = TRUE
    SendBatch = TRUE
    Reentrant = {"send"}
    MaxQueuedBytes = 2
    MaxMessageSize = 2
    Cap = 2
    Sizes = {1, 3}
    Reactions <- EngineAnswers
    Rto = 1
    HandshakeTimeout = 2
    MaxTime = 3
    MaxInputs = 3
    MaxSends = 2
INVARIANTS EventsDrained InboundIsFlushed TimerCovers PacketsInOrder
PROPERTIES KeepsContract NoPacketAfterClose
CHECK_DEADLOCK FALSE
