SPECIFICATION Spec
CONSTANTS
    Policy = "drop"
    EventBatchSize = 2
    InputBatch = TRUE
    SendBatch = TRUE
    Reentrant = {}
    MaxQueuedBytes = 2
    MaxMessageSize = 2
    Cap = 2
    Sizes = {1}
    Reactions <- EngineAnswers
    Rto = 1
    HandshakeTimeout = 1
    MaxTime = 2
    MaxInputs = 2
    MaxSends = 1
INVARIANTS NoUseAfterDispose
CHECK_DEADLOCK FALSE
