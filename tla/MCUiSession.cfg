CONSTANTS
    None = None
    Call <- MCCall
    MaxHotkey = 1
    MaxEvents = 1
SPECIFICATION Spec
INVARIANTS
    SessionIsCurrent
    OnlyCleanupOrphans
    IdleShowsOff
CHECK_DEADLOCK FALSE
