CONSTANTS
    WriteBuffers = {}
    PacketSizes = {}
    ReadSizes = {1}
    DataSizes = {2}
    HostWindow = 2
    HostMaxPacket = 1
    LocalWindow = 4
    AdjustSizes = {1}
    SrvOpenTypes = {}
    ForwardAgent = FALSE
    MiscTypes = {}
    MaxWrites = 0
    MaxReads = 1
    MaxData = 2
    MaxAdjust = 0
    MaxMisc = 0
SPECIFICATION Spec
CHECK_DEADLOCK FALSE
INVARIANT ReadServedAtOnce
