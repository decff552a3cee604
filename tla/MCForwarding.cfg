CONSTANTS
    c1 = c1
    c2 = c2
    f = f
    alt = alt
    altgr = altgr
    fKey = fKey
    altKey = altKey
    Conn <- MCConn1
    Key <- MCChord
    Code <- MCCode
    Injected <- MCInjected
    KeyCode <- MCKeyCode
    CodeKey <- MCCodeKey
    HotKey <- MCHot
    Mods <- MCMods
    Repeats = TRUE
    AutoForward = FALSE
    ToggleRequests <- MCNone
    MaxCapture = 2
    MaxOut = 1
SPECIFICATION Spec
INVARIANTS
    TypeOK
    HeldKeysAreDown
    NothingStuckWhenOff
    NoticeIsTruth
PROPERTIES
    NoPressAfterOff
    ToldInTheEnd
