CONSTANTS
    cli = cli
    s1 = s1
    s2 = s2
    k1 = k1
    k2 = k2
    Unset = Unset
    Ui = Ui
    Connector <- MCOne
    Secret <- MCSecret
    Cert <- MCCert
    Stored = Stored
    Any = Any
    Demands <- MCDemands
    MaxBackoff = 2
SPECIFICATION ClientSpec
PROPERTIES
    NeverAskedAgain
    IdentityKept
    PinKept
    RetriesForEver
CHECK_DEADLOCK FALSE
