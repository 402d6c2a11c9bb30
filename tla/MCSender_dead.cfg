SPECIFICATION LossFreeSpec
CONSTANTS
    NumPaths = 2
    MaxN = 8
    K = 2
    LossUnit = 20
    RatioUnit = 2
    DampEchoes = 4
    Ratio = 3
    MaxTimeout = 2
    MayFail = {1}
    MayLack = {}
    MaxPackets = 0
    MaxHups = 0
    MaxEdits = 0
    BadFile = BadFile
    InitialWeights <- TwoOne
    Config <- MCConfig
    InitialConfig <- AllOn
    BlockTimeout <- MCBlockTimeout
    ProbeInterval <- MCProbeInterval
    Address <- OwnAddress
    Source <- OwnSource
PROPERTY FailedPathMarkedDead
CHECK_DEADLOCK FALSE
