SPECIFICATION TunnelSpec
CONSTANTS
    IdMod = 10
    WindowSize = 2
    MaxN = 4
    RxTimeout = 1
    MaxBack = 1
    MaxAdvance = 5
    MaxDelay = 1
    MaxSent = 4
    MaxRestarts = 1
    Shard <- MCShard
    Datagram <- MCDatagram
    Decodable <- MCDecodable
INVARIANT RecoversOriginal
