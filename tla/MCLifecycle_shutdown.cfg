\* stdin ends before the health server waits for the shutdown.
SPECIFICATION LiveSpec
CONSTANTS
    Loop <- MCLoop
    Probe = {p1, p2}
    Configs <- MCConfigs
\* The process exits.
CHECK_DEADLOCK FALSE
PROPERTIES ShutdownCompletes
