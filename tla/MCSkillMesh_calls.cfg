\* Two calls to one skill race each other and a refresh that changes it.
SPECIFICATION Spec
CONSTANTS
    Skill = {s1}
    Tool = {}
    Refresher = {r1}
    Lister = {}
    Caller = {c1, c2}
    Manifests <- CallManifests
    Absent = Absent
    Nobody = Nobody
    CIRCUIT_TRIP_THRESHOLD = 1
    TTL = 0
    RefreshEnabled = TRUE
    MaxFailures = 2
SYMMETRY Symmetry
INVARIANTS TypeOK CallInv FastFailJustified ExecutionBound
