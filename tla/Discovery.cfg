SPECIFICATION FairSpec
CONSTANTS
    a = a
    b = b
    m = m
    Names = {a}
    Ids = {m}
    Refreshes <- BothSources
    MaxTroubles = 2
INVARIANTS
    DiscoveryTypeOK
    DiscoveredOnce
PROPERTIES
    UnreachableIsNotEmpty
    TraefikIsFollowed
    StreamComesBack
