\* Every stream of up to four lines, cut anywhere; and one call at a time, to its end.
SPECIFICATION BothSpec
CONSTANTS
    Task = {t1}
    Id = {i1}
    None = None
    CAP = 1
    MaxFrames = 3
    MaxChunk = 2
    Byte <- MCByte
    Streams <- MCStreams
    Content <- MCContent
    MaxLines = 4
INVARIANTS ParserInv BufferIsUnfinished
PROPERTIES FindsEvents Answered PumpEnds
