CONSTANTS
    BlockSizes <- MC_BlockSizes
    PayloadLens <- MC_PayloadLens
    HostileLengths <- MC_NoHostile
    HostilePaddings <- MC_SanePaddings
    FieldKinds <- MC_BlobOnly
    FieldLens <- MC_FieldLens
    MaxReads = 3
    FilterBuffer = 128
    EncryptLens <- MC_EncryptLens
    StreamPackets <- MC_NoStream
    ChunkSizes = {1}
SPECIFICATION Spec
CHECK_DEADLOCK FALSE
INVARIANT ReadsWithinPacket
