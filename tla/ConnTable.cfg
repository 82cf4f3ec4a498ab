SPECIFICATION Spec
CONSTANTS
    MaxConnections = 2
    GenMod = 4
    MaxConns = 3
INVARIANT TypeOK
INVARIANT PendingWorkExact
INVARIANT FreelistSound
INVARIANT ReplyToRightConnection
INVARIANT BuffersOwned
INVARIANT SentBufferStable
PROPERTY SilentConnectionDropped
CHECK_DEADLOCK FALSE
