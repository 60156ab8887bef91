CONSTANTS
    Requests <- MC_Tunnelled
    CopyBuffer = 1
    BufferCap = 8
    RemoteData = {7}
    MaxRemote = 1
    Kinds <- MC_BothKinds
    PlainTarget <- MC_PlainTarget
    PlainData <- MC_PlainData
SPECIFICATION Spec
CHECK_DEADLOCK FALSE
INVARIANT RequestHonoured
INVARIANT PayloadForwarded
