SPECIFICATION FairSpec
CONSTANTS
    IdMod = 6
    WindowSize = 2
    MaxN = 3
    RxTimeout = 1
    MaxBack = 1
    MaxAdvance = 7
    MaxBlockId = 5
    Direction <- OneTooMany
    Shard <- MCShard
    Datagram <- MCDatagram
    Decodable <- MCDecodable
INVARIANT IInv
INVARIANT DecodedReleased
INVARIANT BaseFollowsTraffic
INVARIANT LastSlotUsable
PROPERTY ImplementsOrderedDelivery
PROPERTY AdvanceTerminates
