SPECIFICATION CSpec
CONSTANTS
    Addresses = {a1}
    Proxies = {p1, p2}
    NoProxy = NoProxy
    Releases = {1, 2}
INVARIANTS
    UpdatesGoThroughTunnel
