CONSTANTS
    Requests <- MC_Requests
    CopyBuffer = 2
    BufferCap = 8
    RemoteData = {7}
    MaxRemote = 1
    Kinds <- MC_SocksOnly
    PlainTarget <- MC_PlainTarget
    PlainData <- MC_PlainData
SPECIFICATION Spec
CHECK_DEADLOCK FALSE
PROPERTY HandshakeEndsAfterClose
