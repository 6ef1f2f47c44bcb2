SPECIFICATION SSpec
CONSTANTS
    DelayBase = 1
    DelayMax = 4
    DelayAuthBase = 5
    DelayAuthMax = 16
    ShiftMax = 2
    LazyDelay = 1
    SshMissingDelay = 6
    CountdownMin = 3
    HealthFailsLimit = 2
    Settings <- SettingsUsed
    SocketIds = {s1, s2}
    NoSocket = NoSocket
    Faults = {"crash"}
SYMMETRY SocketSymmetry
INVARIANTS
    IconIsFresh
    ReasonIsAnnounced
    ReconnectIsOffered
    FailuresAreShown
    NothingIsForgotten
    ProcessIsAsWanted
    DisabledIsQuiet
