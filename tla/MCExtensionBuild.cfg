\* Three builds, two at a time, over two lives of the extension.
CONSTANTS
    Builds = {b1, b2, b3}
    Versions = {v1, v2}
    First = v1
    Manifests = {m1, m2}
    None = None
    Stub = Stub
    Overlap = 2
    MaxLives = 2
    MaxFaults = 1
    MaxCrashes = 1
SPECIFICATION Spec
INVARIANTS
    HistoryMatchesVersions
PROPERTIES VersionsAreImmutable
SYMMETRY Symmetry
CHECK_DEADLOCK FALSE
