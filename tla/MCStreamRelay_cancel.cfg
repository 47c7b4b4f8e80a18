\* A cancellation meets a pump that is not waiting.
SPECIFICATION Spec
CONSTANTS
    Task = {t1}
    Id = {i1}
    None = None
    CAP = 1
    MaxFrames = 3
    MaxChunk = 2
PROPERTY CancelStopsPump
