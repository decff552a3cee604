CONSTANTS
    escape = escape
    ctrlL = ctrlL
    ctrlR = ctrlR
    None = None
    Blank = ""
    Unknown = "unknown"
    Key <- MCKey
    ModKeys <- MCModKeys
    ModName <- MCModName
    KeyName <- MCKeyName
    MaxWords = 3
    Width = 4
    Edge = 0
    MaxMoves = 2
SPECIFICATION Spec
INVARIANTS
    LocalKeysAreDown
PROPERTIES
    MotionIsTheUsers
    ParsesAsListed
