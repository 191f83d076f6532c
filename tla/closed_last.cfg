SPECIFICATION Spec
CONSTANTS
    TunnelRole = "Answerer"
    HandshakeTimeout = 1
    MaxMessageSize = 2
    DefaultCap = 2
    Caps = {1}
    Sizes = {0, 2, 3}
    Fingerprints = {"fp1"}
    ConfigFingerprint = "fp1"
    VerifyDisabled = FALSE
    Datagrams <- DataDatagrams
    Outcomes <- OpenFaults
    MaxTime = 0
    MaxInputs = 6
    MaxEvents = 3
INVARIANTS ClosedIsLast
