CONSTANTS
    c1 = c1
    c2 = c2
    x = x
    y = y
    big = big
    Server = Server
    Unseen = Unseen
    Client <- MCClient
    Text <- MCText
    Unsent <- MCUnsent
    MaxCopies = 2
    MaxJoins = 2
    MaxFails = 1
SPECIFICATION ClipSpec
INVARIANTS
    Mirrored
PROPERTIES
    NoEcho
    Settles
CHECK_DEADLOCK FALSE
