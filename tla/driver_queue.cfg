SPECIFICATION Spec
CONSTANTS
    Policy = "queue"
    EventBatchSize = 0
    InputBatch = TRUE
    SendBatch = TRUE
    Reentrant = {"send"}
    MaxQueuedBytes = 2
    MaxMessageSize = 2
    Cap = 2
    Sizes = {1}
    Reactions <- AckAnswers
    Rto = 1
    HandshakeTimeout = 1
    MaxTime = 2
    MaxInputs = 3
    MaxSends = 4
INVARIANTS TypeOK QueueAccounting QueueWaitsForRoom SentInOrder
CHECK_DEADLOCK FALSE
