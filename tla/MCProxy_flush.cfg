SPECIFICATION Spec
CONSTANTS
    Conns = {c1}
    Lines <- PlainLines
    Urldecode <- PlainDecode
    Continued <- Unchanged
    NulLines <- NoLines
    RequestLines <- NoLines
    MatchLines <- NoLines
    SqliLines <- NoLines
    PcreLines <- NoLines
    PcreEnd <- NoLines
    PcreNewline <- NoLines
    PcreNul <- NoLines
    ScanLimit = 10
    Addrs <- TheAddrs
    NullAddr = NullAddr
    Entries <- TheEntries
    Inside <- NoLines
    OptMatch = FALSE
    OptLibinjection = FALSE
    OptPcre = FALSE
    RulesMayEnd = FALSE
    OptLog = FALSE
    PeerAddr <- AllClients
    BackendAddr <- ServerAddr
    Inet6 <- NoBevs
    BlockList <- StrangerOnly
    BlockMsg = BlockMsg
    NoBev = NoBev
    MaxOutput = 2
    MaxRead = 2
    MaxSend <- Send21
PROPERTIES
    FlushedBeforeClose
CHECK_DEADLOCK FALSE
