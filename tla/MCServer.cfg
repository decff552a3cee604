CONSTANTS
    c1 = c1
    c2 = c2
    d1 = d1
    d2 = d2
    NoDevice = NoDevice
    Conn <- MCConn
    Device <- MCDevice
    MaxPending = 1
    AutoForward = TRUE
    ToggleRequests <- MCToggles
SPECIFICATION Spec
INVARIANTS
    TypeOK
    PermitsConserved
    RegistryIsServing
    RegisteredArePaired
    IdleMeansOff
PROPERTIES
    PendingResolves
    SilentPeerIsDropped
CHECK_DEADLOCK FALSE
