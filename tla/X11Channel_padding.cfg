CONSTANTS
    Request <- MC_ShortName
    ChunkSizes <- MC_Whole
    ConnectOK <- MC_Connects
SPECIFICATION Spec
CHECK_DEADLOCK FALSE
INVARIANT ForwardedSetup
