SPECIFICATION LongSpec
CONSTANTS
    Chars <- MCChars
    IntBits = 12
    ScanLimit = 7
    LineLimit = 8
    Compiles <- MCCompiles
    PcreMatches <- MCPcreMatches
INVARIANTS
    EachAlgorithmAnswers
