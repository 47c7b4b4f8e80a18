\* Skills appear and disappear while the loop and two tools/list refresh.
SPECIFICATION Spec
CONSTANTS
    Skill = {s1, s2}
    Tool = {t1, t2}
    Refresher = {r1}
    Lister = {l1, l2}
    Caller = {}
    Manifests <- HttpManifests
    Absent = Absent
    Nobody = Nobody
    CIRCUIT_TRIP_THRESHOLD = 2
    TTL = 1
    RefreshEnabled = TRUE
    MaxFailures = 0
SYMMETRY Symmetry
INVARIANTS IInv RefreshMutex PriorIsCurrent SnapshotConsistent NoRedundantLazyRefresh
PROPERTIES CountCarriedForward RefreshesInCycles
