SPECIFICATION FairSpec
CONSTANTS
    Conns = {c1}
    Lines <- AttackLines
    Urldecode <- AttackDecode
    Continued <- Unchanged
    NulLines <- NoLines
    RequestLines <- GetLines
    MatchLines <- NoLines
    SqliLines <- SqliOnly
    PcreLines <- NoLines
    PcreEnd <- NoLines
    PcreNewline <- NoLines
    PcreNul <- NoLines
    ScanLimit = 10
    Addrs <- TheAddrs
    NullAddr = NullAddr
    Entries <- TheEntries
    Inside <- ClientInside
    OptMatch = FALSE
    OptLibinjection = TRUE
    OptPcre = FALSE
    RulesMayEnd = FALSE
    OptLog = FALSE
    PeerAddr <- AllClients
    BackendAddr <- ServerAddr
    Inet6 <- NoBevs
    BlockList <- StrangerOnly
    BlockMsg = BlockMsg
    NoBev = NoBev
    MaxOutput = 1
    MaxRead = 2
    MaxSend <- Send21
PROPERTIES
    EndClosesBoth
    Delivery
    BlockedIsAnswered
CHECK_DEADLOCK FALSE
