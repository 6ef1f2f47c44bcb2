SPECIFICATION DialogSpec
CONSTANTS
    MainThread = main
    Threads = {main, t1, t2}
    RecordsCountMax = 2
    LogFilesAgeMax = 1
    LogFileTailMax = 2
    PostedMax = 4
    DaysMax = 3
SYMMETRY ThreadSymmetry
INVARIANTS
    RestartShowsRecent
    TextIsGrouped
    ShownInOrder
    LatestIsShown
