\* Two requests at a time over three days, one ledger failure.
CONSTANTS
    Requests = {r1, r2}
    Commands = {c1}
    Fix = Fix
    DailyFree = 2
    Packs = {1, 2}
    Kinds = {"lasting", "expiring"}
    MaxGranted = 2
    MaxDay = 2
    MaxFaults = 1
SPECIFICATION Spec
INVARIANTS
    OverdraftIsBounded
    DuplicatesAreBounded
SYMMETRY Symmetry
