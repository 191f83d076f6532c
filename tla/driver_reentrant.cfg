SPECIFICATION FairSpec
CONSTANTS
    Policy = "drop"
    EventBatchSize = 2
    InputBatch = TRUE
    SendBatch = FALSE
    Reentrant = {"send", "close"}
    MaxQueuedBytes = 2
    MaxMessageSize = 2
    Cap = 2
    Sizes = {1}
    Reactions <- EngineAnswers
    Rto = 1
    HandshakeTimeout = 1
    MaxTime = 2
    MaxInputs = 3
    MaxSends = 2
INVARIANTS NothingLeaks DriverRespectsDispose
PROPERTIES KeepsContract PromiseSettles EngineEndIsReported
CHECK_DEADLOCK FALSE
