SPECIFICATION Spec
CONSTANTS
    TunnelRole = "Offerer"
    HandshakeTimeout = 1
    MaxMessageSize = 2
    DefaultCap = 3
    Caps = {}
    Sizes = {1}
    Fingerprints = {"fp1", "fp2"}
    ConfigFingerprint = "fp1"
    VerifyDisabled = FALSE
    Datagrams <- HandshakeDatagrams
    Outcomes <- BringUpFaults
    MaxTime = 2
    MaxInputs = 4
    MaxEvents = 3
INVARIANTS TypeOK PhaseOrder NothingWaitsBeforeOpen TraceMonotone TimeoutIsHonest LifecycleOnce
PROPERTIES FinishedIsSilent
