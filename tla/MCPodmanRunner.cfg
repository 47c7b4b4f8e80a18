\* Pipes shorter than the request and than what a container may write.
SPECIFICATION LiveSpec
CONSTANTS
    None = None
    RequestSize = 3
    StdinCap = 2
    StdoutCap = 2
    StderrCap = 1
    MaxOut = 5
    MaxErr = 3
\* A run is over, or hangs on a pipe nobody reads.
CHECK_DEADLOCK FALSE
INVARIANTS RunInv AnswerIsFirstLine BehavedIsAnswered NobodyStuck
PROPERTIES LocalRunReturns ContainerEnds
