SPECIFICATION Spec
CONSTANTS
    NumPaths = 2
    MaxN = 8
    K = 2
    LossUnit = 20
    RatioUnit = 2
    DampEchoes = 4
    Config <- MCConfig
    InitialConfig <- Both
INVARIANT TypeOK
INVARIANT CreditBalance
INVARIANT DeadPathsAddShards
PROPERTY ExactShares
PROPERTY HysteresisDamps
