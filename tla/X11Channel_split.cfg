CONSTANTS
    Request <- MC_MitCookie
    ChunkSizes <- MC_Pieces
    ConnectOK <- MC_Connects
SPECIFICATION Spec
CHECK_DEADLOCK FALSE
INVARIANT NoEraseBeyondEnd
