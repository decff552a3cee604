CONSTANTS
    c1 = c1
    c2 = c2
    f = f
    alt = alt
    altgr = altgr
    fKey = fKey
    altKey = altKey
    Conn <- MCConn1
    Key <- MCPlain
    Code <- MCCode
    Injected <- MCInjected
    KeyCode <- MCKeyCode
    CodeKey <- MCCodeKey
    HotKey <- MCHot
    Mods <- MCNone
    Repeats = FALSE
    AutoForward = FALSE
    ToggleRequests <- MCBoth
    MaxCapture = 1
    MaxOut = 3
SPECIFICATION Spec
INVARIANT NothingStuckWhenOff
