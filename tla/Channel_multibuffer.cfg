CONSTANTS
    WriteBuffers <- MC_TwoBuffers
    PacketSizes = {}
    ReadSizes = {1}
    DataSizes = {3}
    HostWindow = 2
    HostMaxPacket = 1
    LocalWindow = 4
    AdjustSizes = {1}
    SrvOpenTypes <- MC_OpenTypes
    ForwardAgent = FALSE
    MiscTypes <- MC_Misc
    MaxWrites = 1
    MaxReads = 2
    MaxData = 3
    MaxAdjust = 1
    MaxMisc = 1
SPECIFICATION Spec
CHECK_DEADLOCK FALSE
PROPERTY StreamRefined
