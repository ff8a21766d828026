SPECIFICATION Spec
CONSTANTS MaxStreams = 3 MaxMedia = 2 MaxOps = 3 MaxConnections = 2
INVARIANT NoFrozenPeer
CHECK_DEADLOCK FALSE
