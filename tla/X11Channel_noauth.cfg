CONSTANTS
    Request <- MC_NoAuth
    ChunkSizes <- MC_Pieces
    ConnectOK <- MC_Connects
SPECIFICATION Spec
CHECK_DEADLOCK FALSE
PROPERTY SetupAnswered
