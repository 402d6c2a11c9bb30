SPECIFICATION Spec
CONSTANTS
    IdMod = 32
    WindowSize = 3
    MaxN = 4
    RxTimeout = 2
    MaxBack = 1
    MaxAdvance = 6
    MaxBlockId = 4
    Direction <- OneCoded
    Shard <- MCShard
    Datagram <- MCDatagram
    Decodable <- MCDecodable
INVARIANT SlotForEveryBlock
