\* Every command line, two probes at once.
SPECIFICATION LiveSpec
CONSTANTS
    Loop <- MCLoop
    Probe = {p1, p2}
    Configs <- MCConfigs
\* The process exits.
CHECK_DEADLOCK FALSE
INVARIANTS LifecycleInv ReadyMeansRefreshed DrainedExit
PROPERTIES ServedShutdownCompletes
