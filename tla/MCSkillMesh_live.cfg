\* Failing calls open the breaker of a skill with an image; then none may come.
SPECIFICATION Spec
CONSTANTS
    Skill = {s1}
    Tool = {t1}
    Refresher = {r1}
    Lister = {l1}
    Caller = {c1}
    Manifests <- ImageManifests
    Absent = Absent
    Nobody = Nobody
    CIRCUIT_TRIP_THRESHOLD = 2
    TTL = 0
    RefreshEnabled = TRUE
    MaxFailures = 2
PROPERTIES BreakerRecovers ListReturns
