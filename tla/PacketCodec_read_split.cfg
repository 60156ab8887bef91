CONSTANTS
    BlockSizes = {8}
    PayloadLens = {1}
    HostileLengths <- MC_NoHostile
    HostilePaddings <- MC_SanePaddings
    FieldKinds <- MC_StringOnly
    FieldLens = {0}
    MaxReads = 0
    FilterBuffer = 128
    EncryptLens = {1}
    StreamPackets <- MC_LongStream
    ChunkSizes <- MC_ThreeThenRest
SPECIFICATION Spec
CHECK_DEADLOCK FALSE
INVARIANT BodyAllocatedBeforeUse
