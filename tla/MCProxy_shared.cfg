SPECIFICATION Spec
CONSTANTS
    Conns = {c1, c2}
    Lines <- GetLines
    Urldecode <- GetDecode
    Continued <- Unchanged
    NulLines <- NoLines
    RequestLines <- GetLines
    MatchLines <- NoLines
    SqliLines <- NoLines
    PcreLines <- NoLines
    PcreEnd <- NoLines
    PcreNewline <- NoLines
    PcreNul <- NoLines
    ScanLimit = 10
    Addrs <- ThreeAddrs
    NullAddr = NullAddr
    Entries <- TheEntries
    Inside <- BothInside
    OptMatch = FALSE
    OptLibinjection = FALSE
    OptPcre = FALSE
    RulesMayEnd = FALSE
    OptLog = FALSE
    PeerAddr <- TwoClients
    BackendAddr <- ServerAddr
    Inet6 <- StrangerBevs
    BlockList <- ClientThenStranger
    BlockMsg = BlockMsg
    NoBev = NoBev
    MaxOutput = 2
    MaxRead = 2
    MaxSend <- Send10
INVARIANTS
    NoDanglingPartner
PROPERTIES
    FirstListedBlocked
CHECK_DEADLOCK FALSE
