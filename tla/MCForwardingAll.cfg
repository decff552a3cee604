CONSTANTS
    c1 = c1
    c2 = c2
    f = f
    alt = alt
    altgr = altgr
    fKey = fKey
    altKey = altKey
    Conn <- MCConn
    Key <- MCHotKey
    Code <- MCCode
    Injected <- MCInjected
    KeyCode <- MCKeyCode
    CodeKey <- MCCodeKey
    HotKey <- MCHot
    Mods <- MCNone
    Repeats = TRUE
    AutoForward = TRUE
    ToggleRequests <- MCOff
    MaxCapture = 1
    MaxOut = 2
SPECIFICATION Spec
SYMMETRY MCSymmetry
INVARIANT GoodbyeIsLast
