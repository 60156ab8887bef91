CONSTANTS
    WriteBuffers = {}
    PacketSizes = {2}
    ReadSizes = {1}
    DataSizes = {1}
    HostWindow = 2
    HostMaxPacket = 1
    LocalWindow = 4
    AdjustSizes = {1}
    SrvOpenTypes = {}
    ForwardAgent = FALSE
    MiscTypes = {}
    MaxWrites = 1
    MaxReads = 0
    MaxData = 0
    MaxAdjust = 0
    MaxMisc = 0
SPECIFICATION Spec
CHECK_DEADLOCK FALSE
INVARIANT MaxPacketRespected
