\* Two builds of one version at a time; nothing fails.
CONSTANTS
    Builds = {b1, b2}
    Versions = {v1, v2}
    First = v1
    Manifests = {m1}
    None = None
    Stub = Stub
    Overlap = 2
    MaxLives = 1
    MaxFaults = 0
    MaxCrashes = 0
SPECIFICATION Spec
INVARIANTS DownloadsVerify
CHECK_DEADLOCK FALSE
