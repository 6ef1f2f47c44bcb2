SPECIFICATION HSpec
CONSTANTS
    DelayBase = 1
    DelayMax = 4
    DelayAuthBase = 5
    DelayAuthMax = 16
    ShiftMax = 3
    LazyDelay = 1
    SshMissingDelay = 6
    HealthFailsLimit = 3
    Settings <- SettingsUsed
    SocketIds = {s1, s2, s3}
    NoSocket = NoSocket
    Faults = {}
SYMMETRY SocketSymmetry
INVARIANTS
    ResultsAreCurrent
    AuthBackoffKept
    OpenIsOurs
    TypeOK
    QuitLeavesNothing
PROPERTIES
    ImplementsService
