SPECIFICATION Spec
CONSTANTS
    Peer <- MCPeer
    Path = {0, 1}
    Address <- MCAddress
    Owner <- MCOwner
    NoAddress = NoAddress
    Tables <- MCTables
    Routes <- MCRoutes
    Mode <- MCMode
    Key <- MCKey
    NoKey = NoKey
    ShardId <- MCShardId
    Lengths = {3}
    MaxK = 2
    MaxPayload = 3
    Word = 2
    Offsets = {0, 3}
    Foreign <- MCForeign
    MaxTime = 2
    MaxNet = 2
INVARIANT TypeOK
INVARIANT BookedOnItsPath
INVARIANT PayloadIntact
INVARIANT RttIsRoundTrip
INVARIANT OwnDatagramsAccepted
