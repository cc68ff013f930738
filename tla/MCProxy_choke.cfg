SPECIFICATION Spec
CONSTANTS
    Conns = {c1}
    Lines <- RejectLines
    Urldecode <- RejectDecode
    Continued <- Unchanged
    NulLines <- NoLines
    RequestLines <- SqliOnly
    MatchLines <- NoLines
    SqliLines <- SqliOnly
    PcreLines <- NoLines
    PcreEnd <- NoLines
    PcreNewline <- NoLines
    PcreNul <- NoLines
    ScanLimit = 10
    Addrs <- TheAddrs
    NullAddr = NullAddr
    Entries <- TheEntries
    Inside <- ClientInside
    OptMatch = FALSE
    OptLibinjection = TRUE
    OptPcre = FALSE
    RulesMayEnd = FALSE
    OptLog = FALSE
    PeerAddr <- AllClients
    BackendAddr <- ServerAddr
    Inet6 <- NoBevs
    BlockList <- StrangerOnly
    BlockMsg = BlockMsg
    NoBev = NoBev
    MaxOutput = 2
    MaxRead = 2
    MaxSend <- Send15
INVARIANTS
    TypeOK
    Conservation
    BoundedOutput
    NoLostWakeup
CHECK_DEADLOCK FALSE
