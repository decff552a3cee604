CONSTANTS
    t1 = t1
    t2 = t2
    t3 = t3
    Task <- MCTask
    Window = 3
    MaxFailures = 3
    MaxTime = 8
SYMMETRY MCSymmetry
SPECIFICATION SocksSpec
INVARIANTS
    EnoughFailuresBlock
    OvershootBounded
PROPERTIES
    CleanSlate
    KeepsLockoutProtocol
