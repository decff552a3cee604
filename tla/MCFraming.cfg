CONSTANTS
    key = key
    ping = ping
    text = text
    Pong = Pong
    None = None
    Msg <- MCMsg
    Asks <- MCAsks
    Parts <- MCParts
    SendRoom = 1
    DeadTicks = 2
    MaxPings = 2
SPECIFICATION Spec
PROPERTIES
    ImplementsChannel
    SilentServerIsLeft
CHECK_DEADLOCK FALSE
