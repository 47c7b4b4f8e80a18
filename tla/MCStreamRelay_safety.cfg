\* Two requests with ids used again, against cancellations and a full channel.
SPECIFICATION Spec
CONSTANTS
    Task = {t1, t2}
    Id = {i1, i2}
    None = None
    CAP = 1
    MaxFrames = 2
    MaxChunk = 2
SYMMETRY Symmetry
INVARIANTS InFlightExact CancelledOnlyIfAsked IInv
PROPERTY RelaysToolStream
