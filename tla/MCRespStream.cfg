\* Every way of cutting a stream into chunks.
SPECIFICATION FairSpec
CONSTANTS
    Byte = {"0", "1", "2", "3", "9", "*", "$", "-", "x", "cr", "lf"}
    Streams <- MCStreams
    Digit <- MCDigit
    kMaxArgs = 2
    kMaxBulk = 2
    CompactAt = 6
    MaxInt = 15
    CR = "cr"
    LF = "lf"
    Star = "*"
    Dollar = "$"
    Minus = "-"
    Error = Error
INVARIANTS
    TypeOK
    OffsetsSound
    StreamUnderstood
    ResultsConsume
PROPERTY
    Drains
CHECK_DEADLOCK FALSE
