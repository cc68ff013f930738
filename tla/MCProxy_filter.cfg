SPECIFICATION Spec
CONSTANTS
    Conns = {c1}
    Lines <- CodedLines
    Urldecode <- CodedDecode
    Continued <- CodedContinued
    NulLines <- CodedNul
    RequestLines <- GetLines
    MatchLines <- NoLines
    SqliLines <- SqliOnly
    PcreLines <- NoLines
    PcreEnd <- GetLines
    PcreNewline <- NoLines
    PcreNul <- NoLines
    ScanLimit = 2
    Addrs <- TheAddrs
    NullAddr = NullAddr
    Entries <- TheEntries
    Inside <- ClientInside
    OptMatch = FALSE
    OptLibinjection = TRUE
    OptPcre = TRUE
    RulesMayEnd = TRUE
    OptLog = TRUE
    PeerAddr <- AllClients
    BackendAddr <- ServerAddr
    Inet6 <- NoBevs
    BlockList <- StrangerOnly
    BlockMsg = BlockMsg
    NoBev = NoBev
    MaxOutput = 2
    MaxRead = 2
    MaxSend <- Send21
INVARIANTS
    RejectedHeldBack
    Conservation
PROPERTIES
    ImplementsTunnel
CHECK_DEADLOCK FALSE
