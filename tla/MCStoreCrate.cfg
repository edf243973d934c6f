SPECIFICATION CrateSpec
CONSTANTS
    Capacity = 3
    CacheHeight = {1, 2, 3, 4}
    CacheId = {p, q, r, s, t}
    CacheValue = {v1, v2}
    Task = {t1, t2}
    Consumer = {1, 2}
    Blob = {x, y}
    NoTask = NoTask
    MaxCommits = 3
INVARIANTS
    CacheTypeOK
    IndexesAgree
    WithinCapacity
    ReadsAreSnapshots
PROPERTY
    EvictsOldest
