SPECIFICATION ParserSpec
CONSTANTS
    Streams <- MCStreams
    MaskKey <- MCMaskKey
    Lengths <- MCLengths
    MaxChunk = 3
    MaxConnections = 2
INVARIANTS
    EmitsMessages
    BuiltHeadersParse
CHECK_DEADLOCK FALSE
