CONSTANTS
    BlockSizes <- MC_BlockSizes
    PayloadLens <- MC_PayloadLens
    HostileLengths <- MC_HostileLengths
    HostilePaddings <- MC_SanePaddings
    FieldKinds <- MC_StringOnly
    FieldLens <- MC_FieldLens
    MaxReads = 3
    FilterBuffer = 128
    EncryptLens <- MC_EncryptLens
    StreamPackets <- MC_Stream
    ChunkSizes <- MC_ChunkSizes
SPECIFICATION Spec
CHECK_DEADLOCK FALSE
INVARIANT TypeOK
INVARIANT WriteMatchesRfc
INVARIANT RoundTrip
INVARIANT EncryptorTakesFrame
INVARIANT BufferNotOverrun
PROPERTY StreamFramed
