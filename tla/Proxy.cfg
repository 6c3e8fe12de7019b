CONSTANTS
    Conns = {c1, c2}
    NumKeys = 2
    MaxRequests = 2
    NoConn = NoConn

SPECIFICATION ProxySpec

INVARIANTS
    KeysInTurn

PROPERTIES
    Answered
    ShutdownEnds
