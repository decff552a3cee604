CONSTANTS
    d1 = d1
    d2 = d2
    k1 = k1
    k2 = k2
    k3 = k3
    Device <- MCDevice
    Cert <- MCCert
    Missing = Missing
    Empty = Empty
    Garbled = Garbled
    None = None
SPECIFICATION Spec
SYMMETRY MCSymmetry
INVARIANTS
    RevokedNeedsPin
    PairingsSurvive
    StartFailsOnlyTorn
PROPERTY
    CertKept
CHECK_DEADLOCK FALSE
