SPECIFICATION Spec
CONSTANTS
    NumPaths = 2
    MaxN = 8
    K = 2
    LossUnit = 20
    RatioUnit = 2
    DampEchoes = 4
    Ratio = 5
    MaxTimeout = 2
    MayFail = {}
    MayLack = {0}
    MaxPackets = 2
    MaxHups = 1
    MaxEdits = 1
    BadFile = BadFile
    InitialWeights <- TwoOne
    Config <- MCConfig
    InitialConfig <- AllOn
    BlockTimeout <- MCBlockTimeout
    ProbeInterval <- MCProbeInterval
    Address <- OwnAddress
    Source <- CrossSource
INVARIANT TypeOK
INVARIANT NoPacketLost
INVARIANT HupHonoured
INVARIANT FlushLatency
PROPERTY BlockIdsConsecutive
PROPERTY CoversUsablePaths
CHECK_DEADLOCK FALSE
