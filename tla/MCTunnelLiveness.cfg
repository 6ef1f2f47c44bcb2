SPECIFICATION LSpec
CONSTANTS
    DelayBase = 1
    DelayMax = 2
    DelayAuthBase = 5
    DelayAuthMax = 10
    ShiftMax = 1
    LazyDelay = 1
    SshMissingDelay = 6
    HealthFailsLimit = 2
    Settings <- EnabledAndDisabled
    SocketIds = {s1, s2}
    NoSocket = NoSocket
    Faults = {"crash"}
PROPERTIES
    TunnelRecovers
    WatchdogBarks
\* A calm system with a disabled tunnel has nothing left to do.
CHECK_DEADLOCK FALSE
