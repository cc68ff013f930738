SPECIFICATION MCSpec
CONSTANTS
    Short <- MCShort
    Long <- MCLong
    Sockaddrs <- MCSockaddrs
    Numbers <- MCNumbers
    Contents <- MCContents
    Signals = {"SIGINT", "SIGTSTP", "SIGQUIT"}
    Null = Null
CHECK_DEADLOCK FALSE
INVARIANTS
    ServesComplete
    AlgorithmAsAsked
    FlagsAsAsked
    ThreeKeysResume
    StrnstrFindsFirst
PROPERTIES
    NotTerminated
