CONSTANTS
    BlockSizes <- MC_BlockSizes
    PayloadLens <- MC_PayloadLens
    HostileLengths <- MC_Twelve
    HostilePaddings <- MC_HugePadding
    FieldKinds <- MC_StringOnly
    FieldLens <- MC_FieldLens
    MaxReads = 3
    FilterBuffer = 128
    EncryptLens <- MC_EncryptLens
    StreamPackets <- MC_NoStream
    ChunkSizes = {1}
SPECIFICATION Spec
CHECK_DEADLOCK FALSE
INVARIANT LengthWithinBuffer
