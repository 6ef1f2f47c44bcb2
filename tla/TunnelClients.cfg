SPECIFICATION CSpec
CONSTANTS
    Addresses = {a1, a2}
    Proxies = {p1, p2}
    NoProxy = NoProxy
    Releases = {1, 2}
INVARIANTS
    NoDanglingStream
    RelayedByTunnel
    CheckIsAwaited
    OfferIsTrue
PROPERTIES
    ReleaseIsFound
