SPECIFICATION FairSpec
CONSTANTS
    TunnelRole = "Offerer"
    HandshakeTimeout = 1
    MaxMessageSize = 2
    DefaultCap = 2
    Caps = {}
    Sizes = {}
    Fingerprints = {"fp1", "fp2"}
    ConfigFingerprint = "fp1"
    VerifyDisabled = FALSE
    Datagrams <- LivenessDatagrams
    Outcomes <- ConnectFault
    MaxTime = 1
    MaxInputs = 3
    MaxEvents = 2
PROPERTIES HandshakeEnds
