SPECIFICATION FairSpec
CONSTANTS
    NumPaths = 2
    MaxN = 8
    K = 2
    LossUnit = 20
    RatioUnit = 2
    DampEchoes = 4
    Ratio = 2
    MaxTimeout = 1
    MayFail = {1}
    MayLack = {}
    MaxPackets = 1
    MaxHups = 1
    MaxEdits = 1
    BadFile = BadFile
    InitialWeights <- Even
    Config <- MCConfig
    InitialConfig <- FirstOff
    BlockTimeout <- OneTick
    ProbeInterval <- OneTick
    Address <- SharedAddress
    Source <- StraySource
INVARIANT LateEnabledUnused
PROPERTY ForgottenForEver
PROPERTY PendingBlockSent
PROPERTY Terminates
CHECK_DEADLOCK FALSE
