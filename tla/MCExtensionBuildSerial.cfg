\* Three builds, one at a time, over two lives of the extension.
CONSTANTS
    Builds = {b1, b2, b3}
    Versions = {v1, v2}
    First = v1
    Manifests = {m1}
    None = None
    Stub = Stub
    Overlap = 1
    MaxLives = 2
    MaxFaults = 1
    MaxCrashes = 1
SPECIFICATION FairSpec
INVARIANTS DownloadsVerify
PROPERTIES
    ConflictIsReal
    RecordsAreClosed
CHECK_DEADLOCK FALSE
