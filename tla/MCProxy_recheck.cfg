SPECIFICATION Spec
CONSTANTS
    Conns = {c1}
    Lines <- HttpLines
    Urldecode <- HttpDecode
    Continued <- Unchanged
    NulLines <- NoLines
    RequestLines <- GetLines
    MatchLines <- NoLines
    SqliLines <- SqliOnly
    PcreLines <- NoLines
    PcreEnd <- NoLines
    PcreNewline <- NoLines
    PcreNul <- NoLines
    ScanLimit = 10
    Addrs <- TheAddrs
    NullAddr = NullAddr
    Entries <- TheEntries
    Inside <- ClientInside
    OptMatch = FALSE
    OptLibinjection = FALSE
    OptPcre = FALSE
    RulesMayEnd = FALSE
    OptLog = FALSE
    PeerAddr <- AllClients
    BackendAddr <- ServerAddr
    Inet6 <- NoBevs
    BlockList <- StrangerThenClient
    BlockMsg = BlockMsg
    NoBev = NoBev
    MaxOutput = 2
    MaxRead = 2
    MaxSend <- Send20
INVARIANTS
    BlockedHeldBack
CHECK_DEADLOCK FALSE
